---- MODULE Spec2Model ----
(***************************************************************************)
(* Oracle 11g -> 9i exporter: object replication (OracleExporter._copy_ddl),*)
(* row replication (OracleExporter._copy_data), the statement splitter     *)
(* (db_utils.clean_ddl / execute_non_query) and the catalog validator      *)
(* (OracleValidator.validate).                                             *)
(*                                                                         *)
(* Text is modelled as a sequence of one-character strings.  The tokens    *)
(* "BOM", "ZWSP", "CTRL" and "NONASCII" stand for U+FEFF, U+200B, a        *)
(* control character below 32 and a character above 126.                   *)
(*                                                                         *)
(* Database calls either succeed or raise.  0 is success, a positive       *)
(* number is the code of a cx_Oracle.DatabaseError, NonDbError is any      *)
(* exception that is not a cx_Oracle.DatabaseError.                        *)
(***************************************************************************)
EXTENDS Integers, Sequences, FiniteSets, TLC

\* ------------------------------------------------------------------ bounds
MaxSchemas == 2
MaxNames == 2
MaxRows == 3
MaxBatch == 2
MaxFaults == 1
MaxObjects == 2
MaxGrants == 1
MaxLen == 3

\* ------------------------------------------------------- program constants
DDL_OBJECTS == <<"TABLE", "VIEW", "SYNONYM", "TRIGGER", "PROCEDURE", "FUNCTION", "PACKAGE", "PACKAGE_BODY">>
OBJECT_TYPES == <<"VIEW", "TRIGGER", "PROCEDURE", "FUNCTION">>
MinDdlLen == 10

OK == 0
NonDbError == 0 - 1
ORA955 == 955
ORA2264 == 2264
ORA1430 == 1430
ORA911 == 911
ORA900 == 900
ORA6550 == 6550
ORA4043 == 4043
ORA31600 == 31600
ORA942 == 942
ORA1017 == 1017
ORA12541 == 12541

\* --------------------------------------------------------------- sequences
RECURSIVE SeqFilter(_, _)
SeqFilter(s, keep) ==
    IF s = <<>> THEN <<>>
    ELSE (IF Head(s) \in keep THEN <<Head(s)>> ELSE <<>>) \o SeqFilter(Tail(s), keep)

Last(s) == s[Len(s)]
Front(s) == SubSeq(s, 1, Len(s) - 1)

\* ------------------------------------------------------------- characters
WhiteChars == {" ", "\t", "\n", "\r"}
NonPrintable == {"\t", "\n", "\r", "BOM", "ZWSP", "CTRL", "NONASCII"}
LowControl == {"\r", "CTRL"}

\* str.strip(): leading and trailing whitespace removed
RECURSIVE LStrip(_)
LStrip(s) == IF s # <<>> /\ Head(s) \in WhiteChars THEN LStrip(Tail(s)) ELSE s

RECURSIVE RStrip(_)
RStrip(s) == IF s # <<>> /\ Last(s) \in WhiteChars THEN RStrip(Front(s)) ELSE s

Strip(s) == RStrip(LStrip(s))

\* str.rstrip(";"): every trailing semicolon removed
RECURSIVE RStripSemi(_)
RStripSemi(s) == IF s # <<>> /\ Last(s) = ";" THEN RStripSemi(Front(s)) ELSE s

\* str.isspace(): non-empty and whitespace only
IsSpace(s) == s # <<>> /\ \A i \in 1..Len(s) : s[i] \in WhiteChars

\* ---------------------------------------------------------------- clean_ddl
\* the byte-order mark and the zero-width space are removed
RemoveMarks(s) == SeqFilter(s, {s[i] : i \in 1..Len(s)} \ {"BOM", "ZWSP"})

\* .replace("\r\n", "\n").replace("\r", "\n")
RECURSIVE NormalizeNewlines(_)
NormalizeNewlines(s) ==
    IF s = <<>> THEN <<>>
    ELSE IF Head(s) = "\r" /\ Len(s) > 1 /\ s[2] = "\n"
         THEN <<"\n">> \o NormalizeNewlines(Tail(Tail(s)))
    ELSE IF Head(s) = "\r" THEN <<"\n">> \o NormalizeNewlines(Tail(s))
    ELSE <<Head(s)>> \o NormalizeNewlines(Tail(s))

\* per line: a character outside 32..126 other than tab becomes a space;
\* the lines are joined by "\n" again
CleanLines(s) ==
    [i \in 1..Len(s) |->
        IF s[i] = "\n" THEN "\n"
        ELSE IF s[i] \notin NonPrintable \/ s[i] = "\t" THEN s[i]
        ELSE " "]

ScanStart == [statements |-> <<>>, current |-> <<>>, in_string |-> FALSE,
              string_char |-> "", escape_next |-> FALSE]

\* an iteration that takes the backslash for an ordinary character
ScanCharNoEscape(st, c) ==
    IF c \in {"'", "\""}
    THEN IF ~st.in_string
         THEN [st EXCEPT !.in_string = TRUE, !.string_char = c, !.current = @ \o <<c>>]
         ELSE IF c = st.string_char
         THEN [st EXCEPT !.in_string = FALSE, !.string_char = "", !.current = @ \o <<c>>]
         ELSE [st EXCEPT !.current = @ \o <<c>>]
    ELSE IF ~st.in_string /\ c = ";"
    THEN [st EXCEPT !.statements = IF Strip(st.current) # <<>> /\ ~IsSpace(Strip(st.current))
                                   THEN @ \o <<Strip(st.current)>> ELSE @,
                    !.current = <<>>]
    ELSE [st EXCEPT !.current = @ \o <<c>>]

\* one iteration of the scanning loop on character c
ScanChar(st, c) ==
    IF st.escape_next
    THEN [st EXCEPT !.current = @ \o <<c>>, !.escape_next = FALSE]
    ELSE IF c = "\\"
    THEN [st EXCEPT !.current = @ \o <<c>>, !.escape_next = TRUE]
    ELSE IF c \in {"'", "\""}
    THEN IF ~st.in_string
         THEN [st EXCEPT !.in_string = TRUE, !.string_char = c, !.current = @ \o <<c>>]
         ELSE IF c = st.string_char
         THEN [st EXCEPT !.in_string = FALSE, !.string_char = "", !.current = @ \o <<c>>]
         ELSE [st EXCEPT !.current = @ \o <<c>>]
    ELSE IF ~st.in_string /\ c = ";"
    THEN [st EXCEPT !.statements = IF Strip(st.current) # <<>> /\ ~IsSpace(Strip(st.current))
                                   THEN @ \o <<Strip(st.current)>> ELSE @,
                    !.current = <<>>]
    ELSE [st EXCEPT !.current = @ \o <<c>>]

RECURSIVE Scan(_, _, _)
Scan(ddl, i, st) ==
    IF i > Len(ddl) THEN st ELSE Scan(ddl, i + 1, ScanChar(st, ddl[i]))

\* lines 216-218: the unterminated last statement is added when not blank
WithLast(st) ==
    IF Strip(st.current) # <<>>
    THEN st.statements \o <<Strip(st.current)>>
    ELSE st.statements

ScanStatements(ddl) == WithLast(Scan(ddl, 1, ScanStart))

\* line 226: the characters below 32 other than newline and tab are removed
DropControl(s) == SeqFilter(s, {s[i] : i \in 1..Len(s)} \ LowControl)

\* lines 222-228: the cleaning of one statement
CleanStatement(stmt) == DropControl(Strip(RStripSemi(stmt)))

NonEmpty(c) == IF c # <<>> THEN <<c>> ELSE <<>>

RECURSIVE CleanStatements(_)
CleanStatements(stmts) ==
    IF stmts = <<>> THEN <<>>
    ELSE NonEmpty(CleanStatement(Head(stmts))) \o CleanStatements(Tail(stmts))

\* line 230: the cleaned statements, or the whole text as one statement
OrWholeText(cleaned, text) ==
    IF cleaned # <<>> THEN cleaned ELSE <<RStripSemi(Strip(text))>>

SplitText(text) == OrWholeText(CleanStatements(ScanStatements(text)), text)

clean_ddl(ddl) ==
    IF ddl = <<>> THEN <<>>
    ELSE SplitText(CleanLines(NormalizeNewlines(RemoveMarks(ddl))))

\* ------------------------------------------------------------ SQL texts
\* A statement is recognised by the target from its first character:
\* C(REATE) creates the object the DDL belongs to, D(ROP) drops the table,
\* T(RUNCATE) empties it, A(LTER) changes nothing that is modelled; any
\* other first character is not SQL (ORA-00900) and a "#" anywhere is an
\* invalid character (ORA-00911).
DropCascadeSql == <<"D", "R", "O", "P", " ", "T", " ", "C", "C">>
DropPlainSql == <<"D", "R", "O", "P", " ", "T">>
TruncateSql == <<"T", "R", "U", "N", "C", "A", "T", "E">>

GoodDdl == <<"C", "R", "E", "A", "T", "E", " ", "O", "B", "J", ";">>
TwoStmtDdl == <<"C", "R", "E", "A", "T", "E", " ", "O", "B", "J", ";", "\n", "A", "L", "T", "E", "R", ";">>
BadCharDdl == <<"C", "R", "E", "A", "T", "E", " ", "O", "B", "#", ";">>
BadSqlDdl == <<"/", "C", "R", "E", "A", "T", "E", " ", "O", "B", ";">>
ShortDdl == <<"C", "R", ";">>
EmptyDdl == <<>>
DdlPool == {GoodDdl, TwoStmtDdl, BadCharDdl, BadSqlDdl, ShortDdl, EmptyDdl}

\* texts of ALL_SOURCE: one that the target accepts, the unprefixed package
\* text, and one below the minimum length
SourceCreate == <<"C", "R", "E", "A", "T", "E", " ", "P", "K", "G">>
SourceBare == <<"P", "A", "C", "K", "A", "G", "E", " ", "P", "K">>
SourceShort == <<"C", "R">>
SourcePool == {SourceCreate, SourceBare, SourceShort}

\* ------------------------------------------------------ the target database
Names == 1..MaxNames
RowIds == 1..MaxRows
\* a row of the target that no source table holds
OldRow == MaxRows + 1

EmptyRows == [n \in Names |-> <<>>]

HasChar(s, c) == \E i \in 1..Len(s) : s[i] = c

StmtKind(stmt) ==
    IF stmt = <<>> THEN "invalid"
    ELSE IF Head(stmt) = "C" THEN "create"
    ELSE IF Head(stmt) = "D" THEN "drop"
    ELSE IF Head(stmt) = "T" THEN "truncate"
    ELSE IF Head(stmt) = "A" THEN "alter"
    ELSE "invalid"

\* the statement without trailing whitespace and semicolons
Body(stmt) == RStripSemi(RStrip(stmt))

\* what the target answers to cursor.execute(stmt) for the object (cat, name)
\* of schema database db; semiOk: the target accepts a trailing semicolon
NaturalResult(db, stmt, cat, name, semiOk) ==
    IF HasChar(stmt, "#") THEN ORA911
    ELSE IF Body(stmt) # RStrip(stmt) /\ ~semiOk THEN ORA911
    ELSE IF StmtKind(Body(stmt)) = "invalid" THEN ORA900
    ELSE IF StmtKind(Body(stmt)) = "create"
         THEN (IF <<cat, name>> \in db.objs THEN ORA955 ELSE OK)
    ELSE IF StmtKind(Body(stmt)) \in {"drop", "truncate"}
         THEN (IF <<"TABLE", name>> \in db.objs THEN OK ELSE ORA942)
    ELSE OK

\* the effect of a successful statement of the given kind on the schema
\* database
EffectOnDb(db, kind, cat, name) ==
    IF kind = "create"
    THEN [db EXCEPT !.objs = @ \cup {<<cat, name>>},
                    !.rows = IF cat = "TABLE" THEN [@ EXCEPT ![name] = <<>>] ELSE @]
    ELSE IF kind = "drop"
    THEN [db EXCEPT !.objs = @ \ {<<"TABLE", name>>}, !.rows = [@ EXCEPT ![name] = <<>>]]
    ELSE IF kind = "truncate"
    THEN [db EXCEPT !.rows = [@ EXCEPT ![name] = <<>>]]
    ELSE db

\* and on the rows inserted but not committed
EffectOnPending(pn, kind, name) ==
    IF kind \in {"drop", "truncate"} THEN [pn EXCEPT ![name] = <<>>] ELSE pn

\* connection.commit(): the rows inserted on the connection become durable
Commit(db, pn) == [db EXCEPT !.rows = [n \in Names |-> @[n] \o pn[n]]]

\* ------------------------------------------------------- execute_non_query
NoFault == [at |-> 0, kind |-> OK]

\* the state of a call after one cursor.execute(stmt) that answered res
Executed(st, stmt, kind, cat, name, res) ==
    [db |-> IF res = OK THEN EffectOnDb(st.db, kind, cat, name) ELSE st.db,
     pend |-> IF res = OK THEN EffectOnPending(st.pend, kind, name) ELSE st.pend,
     n |-> st.n + 1,
     res |-> res,
     log |-> Append(st.log, [op |-> kind, res |-> res, sql |-> stmt])]

\* one cursor.execute(stmt); st.n counts the calls of this execute_non_query,
\* fault.at names the call that a fault of the environment hits
CursorExecute(st, stmt, cat, name, fault, semiOk) ==
    Executed(st, stmt, StmtKind(Body(stmt)), cat, name,
             IF fault.at = st.n + 1 THEN fault.kind
             ELSE NaturalResult(st.db, stmt, cat, name, semiOk))

\* line 256-257: a semicolon is appended unless the statement ends with one
WithSemicolon(stmt) ==
    IF RStrip(stmt) # <<>> /\ Last(RStrip(stmt)) = ";" THEN stmt ELSE stmt \o <<";">>

\* the loop of lines 247-260: a statement that raises ORA-00911 is executed
\* once more with a semicolon appended; any other error is raised
RECURSIVE ExecStatements(_, _, _, _, _, _)
RECURSIVE AfterExecute(_, _, _, _, _, _)
RECURSIVE AfterRetry(_, _, _, _, _, _)
ExecStatements(stmts, st, cat, name, fault, semiOk) ==
    IF stmts = <<>> THEN st
    ELSE IF Strip(Head(stmts)) = <<>>
    THEN ExecStatements(Tail(stmts), st, cat, name, fault, semiOk)
    ELSE AfterExecute(stmts, CursorExecute(st, Head(stmts), cat, name, fault, semiOk),
                      cat, name, fault, semiOk)

AfterExecute(stmts, r1, cat, name, fault, semiOk) ==
    IF r1.res = OK THEN ExecStatements(Tail(stmts), r1, cat, name, fault, semiOk)
    ELSE IF r1.res = ORA911
    THEN AfterRetry(stmts, CursorExecute(r1, WithSemicolon(Head(stmts)), cat, name, fault, semiOk),
                    cat, name, fault, semiOk)
    ELSE r1

\* a loop that executes the statement a third time after a second ORA-00911
AfterRetryAgain(stmts, r2, cat, name, fault, semiOk) ==
    IF r2.res = OK THEN ExecStatements(Tail(stmts), r2, cat, name, fault, semiOk)
    ELSE IF r2.res = ORA911
    THEN CursorExecute(r2, WithSemicolon(Head(stmts)), cat, name, fault, semiOk)
    ELSE r2

AfterRetry(stmts, r2, cat, name, fault, semiOk) ==
    IF r2.res = OK THEN ExecStatements(Tail(stmts), r2, cat, name, fault, semiOk) ELSE r2

\* line 261: the commit after the last statement
Committed(r) ==
    IF r.res = OK THEN [r EXCEPT !.db = Commit(r.db, r.pend), !.pend = EmptyRows] ELSE r

CallStart(db, pn) == [db |-> db, pend |-> pn, n |-> 0, res |-> OK, log |-> <<>>]

\* execute_non_query(connection, sql) without parameters: the statements of
\* clean_ddl(sql) one by one, then one commit
execute_non_query(db, pn, sql, cat, name, fault, semiOk) ==
    Committed(ExecStatements(clean_ddl(sql), CallStart(db, pn), cat, name, fault, semiOk))

\* all rows in one batch, whatever the size
chunkedWhole(rows, size) == IF rows = <<>> THEN <<>> ELSE <<rows>>

\* chunked(iterable, size)
RECURSIVE chunked(_, _)
chunked(rows, size) ==
    IF rows = <<>> THEN <<>>
    ELSE IF Len(rows) <= size THEN <<rows>>
    ELSE <<SubSeq(rows, 1, size)>> \o chunked(SubSeq(rows, size + 1, Len(rows)), size)

\* ------------------------------------------------------------------- state
VARIABLES
    schema_list,        \* copy(schemas): the schemas, in the order given
    batch_size,         \* OracleExporter.batch_size
    source,             \* the source catalog and data (never written)
    target,             \* per schema: the target's objects, rows and grants
    pend,               \* rows inserted on the target connection, not committed
    pc,                 \* the position in copy / _copy_ddl / _copy_data
    idx,                \* index in schema_list of the schema in progress
    cat,                \* index in DDL_OBJECTS of the category in progress
    objects,            \* names of the category still to be replicated
    ddl_str,            \* the DDL text of the object in progress
    err,                \* error.code in the except clause of the object
    total_objects,      \* _copy_ddl: objects applied
    tables,             \* _copy_data: tables still to be copied
    rows,               \* the rows fetched for the table in progress
    total_rows_copied,  \* _copy_data: rows copied
    tables_missing,     \* _copy_data: tables absent from the target
    source_conn,        \* "none", "open" or "closed"
    target_conn,
    raised,             \* the error that left copy and where it was raised
    faults,             \* faults of the environment so far
    run,                \* 1 for the first call of copy, 2 for the second
    snapshot,           \* the target when the first call of copy ended
    oplog,              \* every statement sent to the target, in order
    objlog,             \* the outcome of every object, in order
    tablog,             \* the outcome of every table, in order
    report,             \* the ValidationReport, once validate has run
    splitter,           \* clean_ddl: the text given and the statements returned
    columns             \* _copy_data: the column names _fetch_rows returned

vars == <<schema_list, batch_size, source, target, pend, pc, idx, cat, objects,
          ddl_str, err, total_objects, tables, rows, total_rows_copied,
          tables_missing, source_conn, target_conn, raised, faults, run,
          snapshot, oplog, objlog, tablog, report, splitter, columns>>

Categories == 1..Len(DDL_OBJECTS)
\* the schemas taken from the end of the list
SchemaReversed == schema_list[Len(schema_list) + 1 - idx]

Schema == schema_list[idx]
Category == DDL_OBJECTS[cat]
IsPackage(c) == c \in {"PACKAGE", "PACKAGE_BODY"}

\* the names in descending order
RECURSIVE Descending(_)
Descending(S) ==
    IF S = {} THEN <<>>
    ELSE LET m == CHOOSE x \in S : \A y \in S : x >= y
         IN  <<m>> \o Descending(S \ {m})

\* the names 1..k in ascending order (ORDER BY object_name / table_name)
RECURSIVE Ascending(_)
Ascending(S) ==
    IF S = {} THEN <<>>
    ELSE LET m == CHOOSE x \in S : \A y \in S : x <= y
         IN  <<m>> \o Ascending(S \ {m})

\* the text dbms_metadata.get_ddl returns for an object of the source
DdlOf(c, n) ==
    IF source.special.cat = c /\ source.special.name = n
    THEN source.special.ddl ELSE GoodDdl

\* ----------------------------------------------------- faults of a call
ExecFaults == {ORA955, ORA911, ORA900, ORA942, ORA12541, NonDbError}
QueryFaults == {ORA942, ORA12541, NonDbError}
FaultsLeft == MaxFaults - faults

\* the faults that may hit one of the first n cursor.execute calls
FaultChoices(n, kinds) ==
    {NoFault} \cup (IF FaultsLeft > 0
                    THEN {[at |-> k, kind |-> e] : k \in 1..n, e \in kinds}
                    ELSE {})
Hit(fault, r) == fault.at = 0 \/ fault.at <= r.n
Used(fault) == IF fault.at = 0 THEN 0 ELSE 1
MaxExec(sql) == 2 * Len(clean_ddl(sql))

\* the statements of one call, as entries of oplog
Entries(log, step, c, n) ==
    [i \in 1..Len(log) |->
        [run |-> run, sch |-> Schema, phase |-> IF step = "truncate" THEN "data" ELSE "ddl",
         step |-> step, op |-> log[i].op, cat |-> c, name |-> n,
         res |-> log[i].res, sql |-> log[i].sql, batch |-> <<>>]]

\* _table_exists: any exception of the query gives False
TableExists(db, n, queryFails) == ~queryFails /\ <<"TABLE", n>> \in db.objs

\* _drop_table after the plain DROP: any error gives False
AfterPlainDropOf(r1, r2, f1, f2) ==
    [db |-> r2.db, pend |-> r2.pend, ret |-> r2.res = OK, res |-> OK,
     log |-> r1.log \o r2.log, n |-> r1.n + r2.n,
     used |-> (IF f1.at = 0 THEN 0 ELSE 1) + (IF f2.at = 0 THEN 0 ELSE 1),
     hit |-> f1.at <= r1.n /\ f2.at <= r2.n]

\* _drop_table after DROP ... CASCADE CONSTRAINTS: done, or an error that is
\* no DatabaseError is raised, or the plain DROP is tried
AfterCascadeDrop(r1, n, f1, f2, s2) ==
    IF r1.res = OK \/ r1.res = NonDbError
    THEN [db |-> r1.db, pend |-> r1.pend, ret |-> r1.res = OK, res |-> r1.res, log |-> r1.log,
          n |-> r1.n, used |-> (IF f1.at = 0 THEN 0 ELSE 1),
          hit |-> f1.at <= r1.n /\ f2.at = 0]
    ELSE AfterPlainDropOf(r1, execute_non_query(r1.db, r1.pend, DropPlainSql, "TABLE", n, f2, s2), f1, f2)

\* _drop_table: False when the table is absent; DROP ... CASCADE CONSTRAINTS,
\* and after a DatabaseError a plain DROP; an error of another class in the
\* first DROP is not caught
DropTable(db, pn, n, queryFails, f1, f2, s1, s2) ==
    IF ~TableExists(db, n, queryFails)
    THEN [db |-> db, pend |-> pn, ret |-> FALSE, res |-> OK, log |-> <<>>, n |-> 0,
          used |-> IF queryFails THEN 1 ELSE 0, hit |-> f1.at = 0 /\ f2.at = 0]
    ELSE AfterCascadeDrop(execute_non_query(db, pn, DropCascadeSql, "TABLE", n, f1, s1), n, f1, f2, s2)

\* _get_package_ddl_from_source: the lines of ALL_SOURCE joined; ValueError
\* when the text is empty or shorter than the minimum
PackageDdlFromSource(queryFault) ==
    IF queryFault # OK THEN [res |-> queryFault, ddl |-> <<>>]
    ELSE IF source.alltext = <<>> \/ Len(Strip(source.alltext)) < MinDdlLen
    THEN [res |-> NonDbError, ddl |-> <<>>]
    ELSE [res |-> OK, ddl |-> source.alltext]

\* ------------------------------------------------------------------- copy
NoError == [code |-> OK, at |-> ""]

\* the finally clause of copy (lines 81-92) followed by the re-raise
Abort(e) ==
    /\ pc' = "aborted"
    /\ raised' = [code |-> e, at |-> pc]
    /\ target_conn' = IF target_conn = "open" THEN "closed" ELSE target_conn
    /\ source_conn' = IF source_conn = "open" THEN "closed" ELSE source_conn
    /\ pend' = EmptyRows

\* lines 47-57: the source connection is acquired, or the error leaves copy
ConnectSource ==
    /\ pc = "connect_source"
    /\ \E ok \in BOOLEAN :
        /\ ~ok => FaultsLeft > 0
        /\ faults' = faults + (IF ok THEN 0 ELSE 1)
        /\ IF ok
           THEN /\ source_conn' = "open"
                /\ target_conn' = "none"
                /\ pc' = "connect_target"
                /\ raised' = raised
           ELSE /\ source_conn' = "none"
                /\ target_conn' = "none"
                /\ pc' = "aborted"
                /\ raised' = [code |-> ORA1017, at |-> pc]
    /\ UNCHANGED <<splitter, columns, schema_list, batch_size, source, target, pend, idx, cat, objects,
                   ddl_str, err, total_objects, tables, rows, total_rows_copied,
                   tables_missing, run, snapshot, oplog, objlog, tablog, report>>

\* lines 59-76: the target connection is acquired, or the error leaves copy
\* (outside the try/finally that closes the connections)
ConnectTarget ==
    /\ pc = "connect_target"
    /\ \E ok \in BOOLEAN :
        /\ ~ok => FaultsLeft > 0
        /\ faults' = faults + (IF ok THEN 0 ELSE 1)
        /\ IF ok
           THEN /\ target_conn' = "open"
                /\ pc' = "ddl_setup"
                /\ raised' = raised
           ELSE /\ target_conn' = "none"
                /\ pc' = "aborted"
                /\ raised' = [code |-> ORA1017, at |-> pc]
    /\ UNCHANGED <<splitter, columns, schema_list, batch_size, source, target, pend, idx, cat, objects,
                   ddl_str, err, total_objects, tables, rows, total_rows_copied,
                   tables_missing, source_conn, run, snapshot, oplog, objlog, tablog, report>>

\* ---------------------------------------------------------------- _copy_ddl
\* lines 108-128: DBMS_METADATA is configured on the source; ORA-04043 and
\* ORA-06550 are tolerated, any other error leaves _copy_ddl
ConfigureMetadata ==
    /\ pc = "ddl_setup"
    /\ \E e \in {OK, ORA4043, ORA6550, ORA942} :
        /\ e # OK => FaultsLeft > 0
        /\ faults' = faults + (IF e = OK THEN 0 ELSE 1)
        /\ IF e \in {OK, ORA4043, ORA6550}
           THEN /\ pc' = "category"
                /\ cat' = 1
                /\ total_objects' = 0
                /\ UNCHANGED <<raised, target_conn, source_conn, pend>>
           ELSE /\ Abort(e)
                /\ UNCHANGED <<cat, total_objects>>
    /\ UNCHANGED <<splitter, columns, schema_list, batch_size, source, target, idx, objects,
                   ddl_str, err, tables, rows, total_rows_copied,
                   tables_missing, run, snapshot, oplog, objlog, tablog, report>>

\* after a category: the next one, and after the last one _copy_data
EndCategory ==
    /\ cat' = cat + 1
    /\ pc' = IF cat = Len(DDL_OBJECTS) THEN "list_tables" ELSE "category"

\* a query of the category that raised, as an entry of oplog
CategoryEntry(e) ==
    [run |-> run, sch |-> Schema, phase |-> "ddl", step |-> "category", op |-> "select",
     cat |-> Category, name |-> 0, res |-> e, sql |-> <<>>, batch |-> <<>>]

\* a loop that takes every error of the query of the category for a skip
QueryCategorySkipsAll ==
    /\ pc = "category"
    /\ \E e \in {OK, ORA31600, ORA942} :
        /\ e # OK => FaultsLeft > 0
        /\ faults' = faults + (IF e = OK THEN 0 ELSE 1)
        /\ oplog' = IF e = OK THEN oplog ELSE Append(oplog, CategoryEntry(e))
        /\ LET found == IF e = OK THEN Ascending(1..source.objs[cat]) ELSE <<>>
           IN  /\ objects' = found
               /\ IF found # <<>>
                  THEN pc' = "object" /\ cat' = cat
                  ELSE EndCategory
               /\ UNCHANGED <<raised, target_conn, source_conn, pend>>
    /\ UNCHANGED <<splitter, columns, schema_list, batch_size, source, target, idx,
                   ddl_str, err, total_objects, tables, rows, total_rows_copied,
                   tables_missing, run, snapshot, objlog, tablog, report>>

\* lines 129-161 and 266-267: the names and DDL of the category, ordered by
\* name; ORA-31600 skips the category, any other error leaves _copy_ddl; a
\* query that raised is kept in oplog
QueryCategory ==
    /\ pc = "category"
    /\ \E e \in {OK, ORA31600, ORA942} :
        /\ e # OK => FaultsLeft > 0
        /\ faults' = faults + (IF e = OK THEN 0 ELSE 1)
        /\ oplog' = IF e = OK THEN oplog ELSE Append(oplog, CategoryEntry(e))
        /\ LET found == IF e = OK THEN Ascending(1..source.objs[cat]) ELSE <<>>
           IN  IF e \in {OK, ORA31600}
               THEN /\ objects' = found
                    /\ IF found # <<>>
                       THEN pc' = "object" /\ cat' = cat
                       ELSE EndCategory
                    /\ UNCHANGED <<raised, target_conn, source_conn, pend>>
               ELSE /\ Abort(e)
                    /\ UNCHANGED <<cat, objects>>
    /\ UNCHANGED <<splitter, columns, schema_list, batch_size, source, target, idx,
                   ddl_str, err, total_objects, tables, rows, total_rows_copied,
                   tables_missing, run, snapshot, objlog, tablog, report>>

\* a loop that counts every object, whatever its outcome
FinishObjectCountsAll(result, how) ==
    /\ objlog' = Append(objlog, [run |-> run, sch |-> Schema, cat |-> Category, name |-> Head(objects),
                                 result |-> result, how |-> how])
    /\ total_objects' = total_objects + 1
    /\ objects' = Tail(objects)
    /\ IF Tail(objects) # <<>> THEN pc' = "object" /\ cat' = cat ELSE EndCategory

\* the object in progress is done: its outcome is recorded and the loop goes on
FinishObject(result, how) ==
    /\ objlog' = Append(objlog, [run |-> run, sch |-> Schema, cat |-> Category, name |-> Head(objects),
                                 result |-> result, how |-> how])
    /\ total_objects' = total_objects + (IF result = "applied" THEN 1 ELSE 0)
    /\ objects' = Tail(objects)
    /\ IF Tail(objects) # <<>> THEN pc' = "object" /\ cat' = cat ELSE EndCategory

\* lines 163-198: the DDL text is materialised; an empty or short text of a
\* package or package body is replaced by the text of ALL_SOURCE when that
\* can be read
PrepareObject ==
    /\ pc = "object"
    /\ LET name == Head(objects)
           text == DdlOf(Category, name)
           short == text = <<>> \/ Len(Strip(text)) < MinDdlLen
       IN  \E qf \in {OK} \cup (IF short /\ IsPackage(Category) /\ FaultsLeft > 0
                                THEN QueryFaults ELSE {}) :
             \E alt \in {PackageDdlFromSource(qf)} :
                 /\ ddl_str' = IF short /\ IsPackage(Category) /\ alt.res = OK
                               THEN alt.ddl ELSE text
                 /\ faults' = faults + (IF qf = OK THEN 0 ELSE 1)
    /\ pc' = IF Category = "TABLE" THEN "predrop" ELSE "first"
    /\ UNCHANGED <<splitter, columns, schema_list, batch_size, source, target, pend, idx, cat, objects,
                   err, total_objects, tables, rows, total_rows_copied,
                   tables_missing, source_conn, target_conn, raised, run,
                   snapshot, oplog, objlog, tablog, report>>

\* lines 199-208 without the call of _drop_table
DropExistingSkipped ==
    /\ pc = "predrop"
    /\ pc' = "first"
    /\ UNCHANGED <<splitter, columns, schema_list, batch_size, source, target, pend, idx, cat, objects,
                   ddl_str, err, total_objects, tables, rows, total_rows_copied,
                   tables_missing, source_conn, target_conn, raised, faults, run,
                   snapshot, oplog, objlog, tablog, report>>

\* lines 199-208: a table that exists in the target is dropped first; an
\* error of _drop_table that is no DatabaseError leaves _copy_ddl
DropExisting ==
    /\ pc = "predrop"
    /\ LET name == Head(objects)
       IN  \E q1 \in BOOLEAN, q2 \in BOOLEAN, s1 \in BOOLEAN, s2 \in BOOLEAN,
              f1 \in FaultChoices(MaxExec(DropCascadeSql), ExecFaults),
              f2 \in FaultChoices(MaxExec(DropPlainSql), ExecFaults) :
             \E d \in {IF TableExists(target[Schema], name, q1)
                       THEN DropTable(target[Schema], pend, name, q2, f1, f2, s1, s2)
                       ELSE [db |-> target[Schema], pend |-> pend, ret |-> FALSE, res |-> OK,
                             log |-> <<>>, n |-> 0, used |-> 0,
                             hit |-> ~q2 /\ f1.at = 0 /\ f2.at = 0]} :
                 /\ d.hit
                 /\ d.used + (IF q1 THEN 1 ELSE 0) <= FaultsLeft
                 /\ faults' = faults + d.used + (IF q1 THEN 1 ELSE 0)
                 /\ target' = [target EXCEPT ![Schema] = d.db]
                 /\ oplog' = oplog \o Entries(d.log, "predrop", "TABLE", name)
                 /\ IF d.res = OK
                    THEN /\ pc' = "first"
                         /\ pend' = d.pend
                         /\ UNCHANGED <<raised, target_conn, source_conn>>
                    ELSE Abort(d.res)
    /\ UNCHANGED <<splitter, columns, schema_list, batch_size, source, idx, cat, objects,
                   ddl_str, err, total_objects, tables, rows, total_rows_copied,
                   tables_missing, run, snapshot, objlog, tablog, report>>

\* a first attempt that takes 'name already exists' on an object that is no
\* table for a failure
FirstAttemptExistsFails ==
    /\ pc = "first"
    /\ LET name == Head(objects)
       IN  \E s \in BOOLEAN, f \in FaultChoices(MaxExec(ddl_str), ExecFaults) :
             \E r \in {execute_non_query(target[Schema], pend, ddl_str, Category, name, f, s)} :
                 /\ Hit(f, r)
                 /\ faults' = faults + Used(f)
                 /\ target' = [target EXCEPT ![Schema] = r.db]
                 /\ oplog' = oplog \o Entries(r.log, "first", Category, name)
                 /\ IF r.res = NonDbError
                    THEN /\ Abort(r.res)
                         /\ UNCHANGED <<err, objlog, total_objects, objects, cat>>
                    ELSE /\ pend' = r.pend
                         /\ err' = r.res
                         /\ UNCHANGED <<raised, target_conn, source_conn>>
                         /\ IF r.res = OK
                            THEN FinishObject("applied", "first")
                            ELSE IF r.res \in {ORA955, ORA2264, ORA1430}
                            THEN IF Category = "TABLE"
                                 THEN /\ pc' = "recreate"
                                      /\ UNCHANGED <<objlog, total_objects, objects, cat>>
                                 ELSE FinishObject("failed", "first")
                            ELSE IF r.res \in {ORA911, ORA900, ORA6550}
                            THEN /\ pc' = IF IsPackage(Category) /\ r.res \in {ORA900, ORA6550}
                                          THEN "all_source" ELSE "split"
                                 /\ UNCHANGED <<objlog, total_objects, objects, cat>>
                            ELSE FinishObject("failed", "first")
    /\ UNCHANGED <<splitter, columns, schema_list, batch_size, source, idx, ddl_str, tables, rows,
                   total_rows_copied, tables_missing, run, snapshot, tablog, report>>

\* lines 210-216, 230-236 and 262-265: the first execute_non_query of the
\* object's DDL and the choice of the except clause
FirstAttempt ==
    /\ pc = "first"
    /\ LET name == Head(objects)
       IN  \E s \in BOOLEAN, f \in FaultChoices(MaxExec(ddl_str), ExecFaults) :
             \E r \in {execute_non_query(target[Schema], pend, ddl_str, Category, name, f, s)} :
                 /\ Hit(f, r)
                 /\ faults' = faults + Used(f)
                 /\ target' = [target EXCEPT ![Schema] = r.db]
                 /\ oplog' = oplog \o Entries(r.log, "first", Category, name)
                 /\ IF r.res = NonDbError
                    THEN /\ Abort(r.res)
                         /\ UNCHANGED <<err, objlog, total_objects, objects, cat>>
                    ELSE /\ pend' = r.pend
                         /\ err' = r.res
                         /\ UNCHANGED <<raised, target_conn, source_conn>>
                         /\ IF r.res = OK
                            THEN FinishObject("applied", "first")
                            ELSE IF r.res \in {ORA955, ORA2264, ORA1430}
                            THEN IF Category = "TABLE"
                                 THEN /\ pc' = "recreate"
                                      /\ UNCHANGED <<objlog, total_objects, objects, cat>>
                                 ELSE FinishObject("applied", "exists")
                            ELSE IF r.res \in {ORA911, ORA900, ORA6550}
                            THEN /\ pc' = IF IsPackage(Category) /\ r.res \in {ORA900, ORA6550}
                                          THEN "all_source" ELSE "split"
                                 /\ UNCHANGED <<objlog, total_objects, objects, cat>>
                            ELSE FinishObject("failed", "first")
    /\ UNCHANGED <<splitter, columns, schema_list, batch_size, source, idx, ddl_str, tables, rows,
                   total_rows_copied, tables_missing, run, snapshot, tablog, report>>

\* lines 216-229: the table is dropped and created once more; an error of
\* _drop_table that is no DatabaseError leaves _copy_ddl
RecreateTable ==
    /\ pc = "recreate"
    /\ LET name == Head(objects)
       IN  \E q \in BOOLEAN, s1 \in BOOLEAN, s2 \in BOOLEAN, s3 \in BOOLEAN,
              f1 \in FaultChoices(MaxExec(DropCascadeSql), ExecFaults),
              f2 \in FaultChoices(MaxExec(DropPlainSql), ExecFaults),
              f3 \in FaultChoices(MaxExec(ddl_str), ExecFaults) :
             \E d \in {DropTable(target[Schema], pend, name, q, f1, f2, s1, s2)} :
             \E r \in {IF d.res = OK /\ d.ret
                       THEN execute_non_query(d.db, d.pend, ddl_str, "TABLE", name, f3, s3)
                       ELSE [db |-> d.db, pend |-> d.pend, n |-> 0, res |-> OK, log |-> <<>>]} :
                 /\ d.hit /\ Hit(f3, r)
                 /\ d.used + Used(f3) <= FaultsLeft
                 /\ faults' = faults + d.used + Used(f3)
                 /\ target' = [target EXCEPT ![Schema] = r.db]
                 /\ oplog' = oplog \o Entries(d.log, "handlerdrop", "TABLE", name)
                                   \o Entries(r.log, "recreate", "TABLE", name)
                 /\ IF d.res # OK
                    THEN /\ Abort(d.res)
                         /\ UNCHANGED <<objlog, total_objects, objects, cat>>
                    ELSE /\ pend' = r.pend
                         /\ UNCHANGED <<raised, target_conn, source_conn>>
                         /\ IF d.ret /\ r.res = OK
                            THEN FinishObject("applied", "recreate")
                            ELSE FinishObject("failed", "recreate")
    /\ UNCHANGED <<splitter, columns, schema_list, batch_size, source, idx, ddl_str, err, tables, rows,
                   total_rows_copied, tables_missing, run, snapshot, tablog, report>>

\* lines 236-245: for a package or package body after ORA-00900 or
\* ORA-06550, the text of ALL_SOURCE is executed; any error leads on to the
\* statement-by-statement retry, with ddl_str replaced when the text was read
AllSourceAttempt ==
    /\ pc = "all_source"
    /\ LET name == Head(objects)
       IN  \E qf \in {OK} \cup (IF FaultsLeft > 0 THEN QueryFaults ELSE {}), s \in BOOLEAN,
              f \in FaultChoices(MaxExec(source.alltext), ExecFaults) :
             \E alt \in {PackageDdlFromSource(qf)} :
             \E r \in {IF alt.res = OK
                       THEN execute_non_query(target[Schema], pend, alt.ddl, Category, name, f, s)
                       ELSE [db |-> target[Schema], pend |-> pend, n |-> 0, res |-> alt.res, log |-> <<>>]} :
                 /\ Hit(f, r)
                 /\ Used(f) + (IF qf = OK THEN 0 ELSE 1) <= FaultsLeft
                 /\ faults' = faults + Used(f) + (IF qf = OK THEN 0 ELSE 1)
                 /\ target' = [target EXCEPT ![Schema] = r.db]
                 /\ pend' = r.pend
                 /\ oplog' = oplog \o Entries(r.log, "all_source", Category, name)
                 /\ ddl_str' = IF alt.res = OK THEN alt.ddl ELSE ddl_str
                 /\ IF r.res = OK
                    THEN FinishObject("applied", "all_source")
                    ELSE /\ pc' = "split"
                         /\ UNCHANGED <<objlog, total_objects, objects, cat>>
    /\ UNCHANGED <<splitter, columns, schema_list, batch_size, source, idx, err, tables, rows,
                   total_rows_copied, tables_missing, source_conn, target_conn,
                   raised, run, snapshot, tablog, report>>

\* lines 248-255 on one cursor: each statement of clean_ddl executed once,
\* the first error ends the loop, a commit follows the last statement
RECURSIVE SplitExecute(_, _, _, _, _)
RECURSIVE AfterSplitExecute(_, _, _, _, _)
SplitExecute(stmts, st, c, n, fault) ==
    IF stmts = <<>> THEN st
    ELSE IF Strip(Head(stmts)) = <<>> THEN SplitExecute(Tail(stmts), st, c, n, fault)
    ELSE AfterSplitExecute(stmts, CursorExecute(st, Head(stmts), c, n, fault, FALSE), c, n, fault)

AfterSplitExecute(stmts, r, c, n, fault) ==
    IF r.res = OK THEN SplitExecute(Tail(stmts), r, c, n, fault) ELSE r

\* a retry that counts the object although a statement of the retry raised
SplitRetryCountsFailure ==
    /\ pc = "split"
    /\ LET name == Head(objects)
       IN  \E stmts \in {clean_ddl(ddl_str)} : \E f \in FaultChoices(Len(stmts), ExecFaults) :
             \E r \in {SplitExecute(stmts, CallStart(target[Schema], pend), Category, name, f)} :
                 /\ Hit(f, r)
                 /\ faults' = faults + Used(f)
                 /\ oplog' = oplog \o Entries(r.log, "split", Category, name)
                 /\ IF r.res = OK
                    THEN /\ target' = [target EXCEPT ![Schema] = Commit(r.db, r.pend)]
                         /\ pend' = EmptyRows
                         /\ FinishObject("applied", "split")
                    ELSE /\ target' = [target EXCEPT ![Schema] = r.db]
                         /\ pend' = r.pend
                         /\ FinishObject("applied", "split")
    /\ UNCHANGED <<splitter, columns, schema_list, batch_size, source, idx, ddl_str, err, tables, rows,
                   total_rows_copied, tables_missing, source_conn, target_conn,
                   raised, run, snapshot, tablog, report>>

\* lines 247-261: the retry after a syntax-class error; any error marks the
\* object failed
SplitRetry ==
    /\ pc = "split"
    /\ LET name == Head(objects)
       IN  \E stmts \in {clean_ddl(ddl_str)} : \E f \in FaultChoices(Len(stmts), ExecFaults) :
             \E r \in {SplitExecute(stmts, CallStart(target[Schema], pend), Category, name, f)} :
                 /\ Hit(f, r)
                 /\ faults' = faults + Used(f)
                 /\ oplog' = oplog \o Entries(r.log, "split", Category, name)
                 /\ IF r.res = OK
                    THEN /\ target' = [target EXCEPT ![Schema] = Commit(r.db, r.pend)]
                         /\ pend' = EmptyRows
                         /\ FinishObject("applied", "split")
                    ELSE /\ target' = [target EXCEPT ![Schema] = r.db]
                         /\ pend' = r.pend
                         /\ FinishObject("failed", "split")
    /\ UNCHANGED <<splitter, columns, schema_list, batch_size, source, idx, ddl_str, err, tables, rows,
                   total_rows_copied, tables_missing, source_conn, target_conn,
                   raised, run, snapshot, tablog, report>>

\* --------------------------------------------------------------- _copy_data
RowsOf(n) == [i \in 1..source.nrows[n] |-> i]

\* a loop that ends with the first table that fails
FinishTableStop(result, how, copied) ==
    /\ tablog' = Append(tablog, [run |-> run, sch |-> Schema, name |-> Head(tables),
                                 result |-> result, how |-> how, copied |-> copied])
    /\ tables' = Tail(tables)
    /\ pc' = IF Tail(tables) # <<>> /\ result # "failed" THEN "table" ELSE "close"

\* the table in progress is done: its outcome is recorded and the loop goes on
FinishTable(result, how, copied) ==
    /\ tablog' = Append(tablog, [run |-> run, sch |-> Schema, name |-> Head(tables),
                                 result |-> result, how |-> how, copied |-> copied])
    /\ tables' = Tail(tables)
    /\ pc' = IF Tail(tables) # <<>> THEN "table" ELSE "close"

\* lines 273-283 and _list_tables: the non-temporary tables of the source,
\* ordered by name; an error of the query leaves _copy_data
ListTables ==
    /\ pc = "list_tables"
    /\ \E e \in {OK} \cup (IF FaultsLeft > 0 THEN QueryFaults ELSE {}) :
        /\ faults' = faults + (IF e = OK THEN 0 ELSE 1)
        /\ IF e = OK
           THEN /\ tables' = Ascending(source.tables)
                /\ total_rows_copied' = 0
                /\ tables_missing' = <<>>
                /\ pc' = IF source.tables = {} THEN "close" ELSE "table"
                /\ UNCHANGED <<raised, target_conn, source_conn, pend>>
           ELSE /\ Abort(e)
                /\ UNCHANGED <<tables, total_rows_copied, tables_missing>>
    /\ UNCHANGED <<splitter, columns, schema_list, batch_size, source, target, idx, cat, objects,
                   ddl_str, err, total_objects, rows, run, snapshot, oplog,
                   objlog, tablog, report>>

\* a loop without the test of lines 288-292
CheckTableNoSkip ==
    /\ pc = "table"
    /\ pc' = "truncate"
    /\ UNCHANGED <<splitter, columns, schema_list, batch_size, source, target, pend, idx, cat, objects,
                   ddl_str, err, total_objects, tables, rows, total_rows_copied,
                   tables_missing, source_conn, target_conn, raised, faults, run,
                   snapshot, oplog, objlog, tablog, report>>

\* lines 284-292: a table that is absent from the target is recorded as
\* missing and skipped
CheckTable ==
    /\ pc = "table"
    /\ \E q \in BOOLEAN :
        /\ q => FaultsLeft > 0
        /\ faults' = faults + (IF q THEN 1 ELSE 0)
        /\ IF TableExists(target[Schema], Head(tables), q)
           THEN /\ pc' = "truncate"
                /\ UNCHANGED <<tables, tables_missing, tablog>>
           ELSE /\ tables_missing' = Append(tables_missing, <<Schema, Head(tables)>>)
                /\ FinishTable("missing", "check", 0)
    /\ UNCHANGED <<splitter, columns, schema_list, batch_size, source, target, pend, idx, cat, objects,
                   ddl_str, err, total_objects, rows, total_rows_copied,
                   source_conn, target_conn, raised, run, snapshot, oplog,
                   objlog, report>>

\* a copy that appends: the rows of the target table are kept
TruncateTableSkipped ==
    /\ pc = "truncate"
    /\ pc' = "fetch"
    /\ UNCHANGED <<splitter, columns, schema_list, batch_size, source, target, pend, idx, cat, objects,
                   ddl_str, err, total_objects, tables, rows, total_rows_copied,
                   tables_missing, source_conn, target_conn, raised, faults, run,
                   snapshot, oplog, objlog, tablog, report>>

\* line 295 and _truncate_target_table: ValueError when the table is absent,
\* else TRUNCATE through execute_non_query; any error is caught at line 305
TruncateTable ==
    /\ pc = "truncate"
    /\ LET name == Head(tables)
       IN  \E q \in BOOLEAN, s \in BOOLEAN, f \in FaultChoices(MaxExec(TruncateSql), ExecFaults) :
             \E r \in {IF TableExists(target[Schema], name, q)
                       THEN execute_non_query(target[Schema], pend, TruncateSql, "TABLE", name, f, s)
                       ELSE [db |-> target[Schema], pend |-> pend, n |-> 0, res |-> NonDbError, log |-> <<>>]} :
                 /\ Hit(f, r)
                 /\ Used(f) + (IF q THEN 1 ELSE 0) <= FaultsLeft
                 /\ faults' = faults + Used(f) + (IF q THEN 1 ELSE 0)
                 /\ target' = [target EXCEPT ![Schema] = r.db]
                 /\ pend' = r.pend
                 /\ oplog' = oplog \o Entries(r.log, "truncate", "TABLE", name)
                 /\ IF r.res = OK
                    THEN /\ pc' = "fetch"
                         /\ UNCHANGED <<tables, tablog>>
                    ELSE FinishTable("failed", "truncate", 0)
    /\ UNCHANGED <<splitter, columns, schema_list, batch_size, source, idx, cat, objects, ddl_str, err,
                   total_objects, rows, total_rows_copied, tables_missing,
                   source_conn, target_conn, raised, run, snapshot, objlog, report>>

\* ALL_TAB_COLUMNS of the source for table n
AllTabColumns(n) ==
    IF n = 1
    THEN {[column_id |-> 1, column_name |-> "ID"], [column_id |-> 2, column_name |-> "NAME"]}
    ELSE {[column_id |-> 1, column_name |-> "NAME"], [column_id |-> 2, column_name |-> "ID"],
          [column_id |-> 3, column_name |-> "VAL"]}

\* lines 343-354: the column names, ORDER BY column_id
RECURSIVE OrderByColumnId(_)
OrderByColumnId(S) ==
    IF S = {} THEN <<>>
    ELSE LET c == CHOOSE x \in S : \A y \in S : x.column_id <= y.column_id
         IN  <<c.column_name>> \o OrderByColumnId(S \ {c})

\* line 355: SELECT c1, c2, ... FROM schema.table
SelectSql(cols) == <<"SELECT">> \o cols \o <<"FROM">>

\* an INSERT that names the columns from the last to the first
InsertSqlReversed(cols) ==
    <<"INSERT">> \o [i \in 1..Len(cols) |-> cols[Len(cols) + 1 - i]]
        \o <<"VALUES">> \o [i \in 1..Len(cols) |-> ":"]

\* lines 369-370: INSERT INTO schema.table (c1, c2, ...) VALUES (:1, :2, ...)
InsertSql(cols) ==
    <<"INSERT">> \o cols \o <<"VALUES">> \o [i \in 1..Len(cols) |-> ":"]

\* the SELECT of _fetch_rows as an entry of oplog
FetchEntry(name, res) ==
    [run |-> run, sch |-> Schema, phase |-> "data", step |-> "fetch", op |-> "select",
     cat |-> "TABLE", name |-> name, res |-> res,
     sql |-> SelectSql(OrderByColumnId(AllTabColumns(name))), batch |-> <<>>]

\* lines 296-304 and _fetch_rows: the rows of the source table; an empty
\* table is done, any error is caught at line 305
FetchRows ==
    /\ pc = "fetch"
    /\ \E e \in {OK} \cup (IF FaultsLeft > 0 THEN QueryFaults ELSE {}) :
        /\ faults' = faults + (IF e = OK THEN 0 ELSE 1)
        /\ oplog' = Append(oplog, FetchEntry(Head(tables), e))
        /\ IF e # OK
           THEN /\ FinishTable("failed", "fetch", 0)
                /\ rows' = <<>>
                /\ columns' = columns
           ELSE /\ rows' = RowsOf(Head(tables))
                /\ columns' = OrderByColumnId(AllTabColumns(Head(tables)))
                /\ IF RowsOf(Head(tables)) = <<>>
                   THEN FinishTable("empty", "fetch", 0)
                   ELSE /\ pc' = "insert"
                        /\ UNCHANGED <<tables, tablog>>
    /\ UNCHANGED <<splitter, schema_list, batch_size, source, target, pend, idx, cat, objects,
                   ddl_str, err, total_objects, total_rows_copied, tables_missing,
                   source_conn, target_conn, raised, run, snapshot, objlog, report>>

\* the executemany calls of _insert_rows as entries of oplog
InsertEntries(batches, name, failAt, kind) ==
    [i \in 1..Len(batches) |->
        [run |-> run, sch |-> Schema, phase |-> "data", step |-> "insert", op |-> "insert",
         cat |-> "TABLE", name |-> name, res |-> IF i = failAt THEN kind ELSE OK,
         sql |-> InsertSql(columns), batch |-> batches[i]]]

CommitEntry(name, res) ==
    [run |-> run, sch |-> Schema, phase |-> "data", step |-> "commit", op |-> "commit",
     cat |-> "TABLE", name |-> name, res |-> res, sql |-> <<>>, batch |-> <<>>]


RECURSIVE Flatten(_)
Flatten(batches) == IF batches = <<>> THEN <<>> ELSE Head(batches) \o Flatten(Tail(batches))

\* _insert_rows(connection, schema, table, columns, rows): one executemany
\* per batch of chunked(rows, batch_size), then one commit; failAt is the
\* call (a batch, or the commit after the last batch) that raises, 0 for none
Inserted(db, pn, name, batches, failAt, kind) ==
    [db |-> IF failAt = 0
            THEN Commit(db, [pn EXCEPT ![name] = @ \o Flatten(batches)])
            ELSE db,
     pend |-> IF failAt = 0 THEN EmptyRows
              ELSE [pn EXCEPT ![name] = @ \o Flatten(SubSeq(batches, 1, failAt - 1))],
     res |-> IF failAt = 0 THEN OK ELSE kind,
     log |-> InsertEntries(IF failAt = 0 \/ failAt > Len(batches) THEN batches
                           ELSE SubSeq(batches, 1, failAt), name, failAt, kind)
             \o (IF failAt = 0 THEN <<CommitEntry(name, OK)>>
                 ELSE IF failAt > Len(batches) THEN <<CommitEntry(name, kind)>>
                 ELSE <<>>)]

InsertRowsResult(db, pn, name, rws, size, failAt, kind) ==
    Inserted(db, pn, name, chunked(rws, size), failAt, kind)

\* lines 298-308: the rows are inserted and counted; any error is caught at
\* table level
InsertRows ==
    /\ pc = "insert"
    /\ LET name == Head(tables)
           nb == Len(chunked(rows, batch_size))
       IN  \E failAt \in 0..(nb + 1), kind \in QueryFaults :
             \E r \in {InsertRowsResult(target[Schema], pend, name, rows, batch_size, failAt, kind)} :
                 /\ failAt # 0 => FaultsLeft > 0
                 /\ failAt = 0 => kind = NonDbError
                 /\ faults' = faults + (IF failAt = 0 THEN 0 ELSE 1)
                 /\ target' = [target EXCEPT ![Schema] = r.db]
                 /\ pend' = r.pend
                 /\ oplog' = oplog \o r.log
                 /\ IF r.res = OK
                    THEN /\ total_rows_copied' = total_rows_copied + Len(rows)
                         /\ FinishTable("copied", "insert", Len(rows))
                    ELSE /\ total_rows_copied' = total_rows_copied
                         /\ FinishTable("failed", "insert", 0)
    /\ UNCHANGED <<splitter, columns, schema_list, batch_size, source, idx, cat, objects, ddl_str, err,
                   total_objects, rows, tables_missing, source_conn, target_conn,
                   raised, run, snapshot, objlog, report>>

\* lines 81-98: both connections are closed (rows not committed are lost
\* with the connection) and the next schema begins
CloseConnections ==
    /\ pc = "close"
    /\ target_conn' = "closed"
    /\ source_conn' = "closed"
    /\ pend' = EmptyRows
    /\ IF idx < Len(schema_list)
       THEN idx' = idx + 1 /\ pc' = "connect_source"
       ELSE idx' = idx /\ pc' = "done"
    /\ UNCHANGED <<splitter, columns, schema_list, batch_size, source, target, cat, objects, ddl_str, err,
                   total_objects, tables, rows, total_rows_copied, tables_missing,
                   raised, faults, run, snapshot, oplog, objlog, tablog, report>>

\* copy is called once more with the same schemas
CopyAgain ==
    /\ pc = "done"
    /\ run = 1
    /\ run' = 2
    /\ snapshot' = target
    /\ idx' = 1
    /\ pc' = "connect_source"
    /\ UNCHANGED <<splitter, columns, schema_list, batch_size, source, target, pend, cat, objects, ddl_str,
                   err, total_objects, tables, rows, total_rows_copied, tables_missing,
                   source_conn, target_conn, raised, faults, oplog, objlog, tablog, report>>

\* --------------------------------------------------------------- validator
\* the type names that occur in the text of an object name: name 2 stands
\* for an identifier such as REVIEW_2
NameWords(n) == IF n = 2 THEN {"VIEW"} ELSE {}

\* all_tables of the source without the filter on temporary tables
ValidatorTables == source.tables \cup (1..source.objs[1])

\* _count_rows on the target raises ORA-00942 for an absent table
CountRaises(schemas) ==
    \E i \in 1..Len(schemas), t \in ValidatorTables : <<"TABLE", t>> \notin target[schemas[i]].objs

\* _validate_tables: one line per table whose counts differ
RECURSIVE TableLines(_, _)
TableLines(s, ts) ==
    IF ts = <<>> THEN <<>>
    ELSE LET t == Head(ts)
             source_count == source.nrows[t]
             target_count == Len(target[s].rows[t])
         IN  (IF source_count # target_count
              THEN <<[schema |-> s, table |-> t, source |-> source_count, target |-> target_count]>>
              ELSE <<>>) \o TableLines(s, Tail(ts))

RECURSIVE ValidateTables(_)
ValidateTables(schemas) ==
    IF schemas = <<>> THEN <<>>
    ELSE TableLines(Head(schemas), Ascending(ValidatorTables)) \o ValidateTables(Tail(schemas))

\* a comparison that reports only the names missing from the target
RECURSIVE CompareSetsMissingOnly(_, _, _)
CompareSetsMissingOnly(schemas, source_set, target_sets) ==
    IF schemas = <<>> THEN <<>>
    ELSE LET s == Head(schemas)
             missing == source_set \ target_sets[s]
         IN  (IF missing # {} THEN <<[schema |-> s, kind |-> "missing", names |-> Ascending(missing)]>> ELSE <<>>)
             \o CompareSetsMissingOnly(Tail(schemas), source_set, target_sets)

\* _compare_sets / _compare_grants: per schema a line for the names missing
\* from the target and a line for the names extra in the target
RECURSIVE CompareSets(_, _, _)
CompareSets(schemas, source_set, target_sets) ==
    IF schemas = <<>> THEN <<>>
    ELSE LET s == Head(schemas)
             missing == source_set \ target_sets[s]
             extra == target_sets[s] \ source_set
         IN  (IF missing # {} THEN <<[schema |-> s, kind |-> "missing", names |-> Ascending(missing)]>> ELSE <<>>)
             \o (IF extra # {} THEN <<[schema |-> s, kind |-> "extra", names |-> Ascending(extra)]>> ELSE <<>>)
             \o CompareSets(Tail(schemas), source_set, target_sets)

SourceObjectNames == {n \in Names : \E c \in Categories : n <= source.objs[c]} \cup source.tables
TargetObjectNames == [s \in 1..MaxSchemas |-> {o[2] : o \in target[s].objs}]
TargetNamesOf(c) == [s \in 1..MaxSchemas |-> {o[2] : o \in {x \in target[s].objs : x[1] = c}}]
TargetGrants == [s \in 1..MaxSchemas |-> target[s].grants]

\* obj_type.upper() in msg.upper()
Mentions(line, obj_type) == \E i \in 1..Len(line.names) : obj_type \in NameWords(line.names[i])

\* _compare_objects: the names of ALL_OBJECTS of every type are compared;
\* the lines that mention the type are kept, or all lines when none does
CompareObjects(schemas, obj_type) ==
    LET detail == CompareSets(schemas, SourceObjectNames, TargetObjectNames)
        Keep(line) == Mentions(line, obj_type)
        kept == SelectSeq(detail, Keep)
    IN  IF kept # <<>> THEN kept ELSE detail

NoReport == [done |-> FALSE, raised |-> OK, tables |-> <<>>, synonyms |-> <<>>, grants |-> <<>>,
             objects |-> [i \in 1..Len(OBJECT_TYPES) |-> <<>>], status |-> 0]

\* ValidationReport.all_valid
all_valid(r) ==
    /\ r.tables = <<>>
    /\ r.synonyms = <<>>
    /\ r.grants = <<>>
    /\ \A i \in 1..Len(OBJECT_TYPES) : r.objects[i] = <<>>

\* the status of the process when handle_validate looks only at the tables
handle_validateTablesOnly(r) ==
    [r EXCEPT !.status = IF r.raised # OK \/ r.tables # <<>> THEN 1 ELSE 0]

\* handle_validate, the status of the process for the outcome r of validate:
\* an exception of validate is raised again and ends the process with status
\* 1, sys.exit(1) when all_valid() is false, and a plain return otherwise
handle_validate(r) ==
    [r EXCEPT !.status = IF r.raised # OK THEN 1 ELSE IF all_valid(r) THEN 0 ELSE 1]

\* the command validate: OracleValidator.validate(schemas), run when copy has
\* ended, and the end of handle_validate
Validate ==
    /\ pc = "done"
    /\ pc' = "validated"
    /\ report' = handle_validate(
                 IF CountRaises(schema_list)
                 THEN [NoReport EXCEPT !.done = TRUE, !.raised = ORA942]
                 ELSE [done |-> TRUE, raised |-> OK,
                       tables |-> ValidateTables(schema_list),
                       synonyms |-> CompareSets(schema_list, 1..source.objs[3], TargetNamesOf("SYNONYM")),
                       grants |-> CompareSets(schema_list, source.grants, TargetGrants),
                       objects |-> [i \in 1..Len(OBJECT_TYPES) |-> CompareObjects(schema_list, OBJECT_TYPES[i])],
                       status |-> 0])
    /\ UNCHANGED <<splitter, columns, schema_list, batch_size, source, target, pend, idx, cat, objects,
                   ddl_str, err, total_objects, tables, rows, total_rows_copied,
                   tables_missing, source_conn, target_conn, raised, faults, run,
                   snapshot, oplog, objlog, tablog>>

\* ------------------------------------------------------------ initial states
Grants == 1..MaxGrants

RECURSIVE Total(_, _)
Total(o, c) == IF c = 0 THEN 0 ELSE o[c] + Total(o, c - 1)

\* the catalogs of the source with at most k objects: per category the
\* names 1..o[c]
Catalogs(k) == {o \in [Categories -> 0..MaxNames] : Total(o, Len(DDL_OBJECTS)) <= k}

AllObjects(o) == UNION {{<<DDL_OBJECTS[c], n>> : n \in 1..o[c]} : c \in Categories}

\* at most one object of the source has a DDL text that is not the regular one
NoSpecial == [cat |-> "", name |-> 0, ddl |-> GoodDdl]
Specials(o) ==
    {NoSpecial} \cup
    UNION {{[cat |-> DDL_OBJECTS[c], name |-> n, ddl |-> d] : n \in 1..o[c], d \in DdlPool \ {GoodDdl}}
           : c \in Categories}

NoRows == [n \in Names |-> 0]

\* the same content in every schema of the target: the objects pre, one old
\* row in each table when old
TargetOf(pre, old, g) ==
    [s \in 1..MaxSchemas |->
        [objs |-> pre,
         rows |-> [n \in Names |-> IF old /\ <<"TABLE", n>> \in pre THEN <<OldRow>> ELSE <<>>],
         grants |-> g]]

Start(sl, bs, src, tgt, at, conn) ==
    /\ schema_list = sl
    /\ batch_size = bs
    /\ source = src
    /\ target = tgt
    /\ pend = EmptyRows
    /\ pc = at
    /\ idx = 1
    /\ cat = 1
    /\ objects = <<>>
    /\ ddl_str = <<>>
    /\ err = OK
    /\ total_objects = 0
    /\ tables = <<>>
    /\ rows = <<>>
    /\ columns = <<>>
    /\ total_rows_copied = 0
    /\ tables_missing = <<>>
    /\ source_conn = conn
    /\ target_conn = conn
    /\ raised = NoError
    /\ faults = 0
    /\ run = 1
    /\ snapshot = tgt
    /\ oplog = <<>>
    /\ objlog = <<>>
    /\ tablog = <<>>
    /\ report = NoReport

\* clean_ddl has not been called
NotCalled == [ddl |-> <<>>, returned |-> FALSE, statements |-> <<>>]

\* one call of _copy_ddl for one schema
InitDdl ==
    \E o \in Catalogs(MaxObjects) :
      \E at \in SourcePool, sp \in Specials(o), pre \in {{}, AllObjects(o)} :
        /\ at # SourceCreate => IsPackage(sp.cat)
        /\ Start(<<1>>, 1,
                 [objs |-> o, special |-> sp, alltext |-> at, tables |-> {},
                  nrows |-> NoRows, grants |-> {}],
                 TargetOf(pre, FALSE, {}), "ddl_setup", "open")
        /\ splitter = NotCalled

\* one call of _copy_data for one schema: the first table holds up to MaxRows
\* rows, every other table at most one
InitData ==
    \E ts \in SUBSET Names, nr \in [Names -> 0..MaxRows], bs \in 1..MaxBatch,
       pre \in SUBSET Names, old \in BOOLEAN :
        /\ \A n \in Names \ ts : nr[n] = 0
        /\ \A n \in Names \ {1} : nr[n] <= 1
        /\ old => pre # {}
        /\ Start(<<1>>, bs,
                 [objs |-> [c \in Categories |-> 0], special |-> NoSpecial,
                  alltext |-> SourceCreate, tables |-> ts, nrows |-> nr, grants |-> {}],
                 TargetOf({<<"TABLE", n>> : n \in pre}, old, {}), "list_tables", "open")
        /\ splitter = NotCalled

\* the schemas 1..k in ascending or in descending order
SchemaLists ==
    UNION {{[i \in 1..k |-> i], [i \in 1..k |-> k + 1 - i]} : k \in 1..MaxSchemas}

\* copy(schemas), once or twice, then validate: at most one object in the
\* catalog, at most one table with rows, the target empty or holding the
\* table with a row of its own
Init ==
    \E o \in Catalogs(1) :
      \E sl \in SchemaLists, ts \in SUBSET (1..1), nr \in {0, MaxRows},
         sg \in SUBSET Grants, pre \in {{}, {<<"TABLE", 1>>}} :
        /\ ts = {} => nr = 0
        /\ Start(sl, MaxBatch,
                 [objs |-> o, special |-> NoSpecial, alltext |-> SourceCreate,
                  tables |-> ts, nrows |-> [n \in Names |-> IF n \in ts THEN nr ELSE 0],
                  grants |-> sg],
                 TargetOf(pre, TRUE, {}), "connect_source", "none")
        /\ splitter = NotCalled

\* ------------------------------------------------- validate, run on its own
\* the grants that either database may hold
GrantPool == 1..(MaxGrants + 1)

\* the grants A, B, C of the source and B, C, D of the target
ExampleSource == {1, 2, 3}
ExampleTarget == {2, 3, 4}
GrantPairs == ((SUBSET GrantPool) \X (SUBSET GrantPool)) \cup {<<ExampleSource, ExampleTarget>>}

\* the objects that schema 1 of the target may hold
TargetPool == {<<"TABLE", 1>>, <<"SYNONYM", 1>>, <<"SYNONYM", 2>>, <<"VIEW", 1>>, <<"PACKAGE", 1>>}

\* validate(schemas) on a source with at most one object and a target whose
\* schema 1 holds any objects and grants; every other schema of the target
\* holds what the source holds
InitValidate ==
    \E o \in Catalogs(1) : \E sl \in SchemaLists, g \in GrantPairs, tobj \in SUBSET TargetPool :
        /\ Start(sl, 1,
                 [objs |-> o, special |-> NoSpecial, alltext |-> SourceCreate,
                  tables |-> 1..o[1], nrows |-> NoRows, grants |-> g[1]],
                 [s \in 1..MaxSchemas |->
                     IF s = 1 THEN [objs |-> tobj, rows |-> EmptyRows, grants |-> g[2]]
                     ELSE [objs |-> AllObjects(o), rows |-> EmptyRows, grants |-> g[1]]],
                 "done", "closed")
        /\ splitter = NotCalled

\* ------------------------------------------------------ statement splitter
\* the characters of the texts given to clean_ddl
SplitChars == {"A", ";", "'", "\"", " ", "\n", "\\", "BOM", "CTRL"}

\* the texts of the examples of the splitter
QuotedExample == <<"A", ";", " ", "'", "x", ";", "y", "'", ";", " ", "B">>
TerminatedExample == <<"A", ";", " ", "B", ";">>
UnterminatedExample == <<"n", "o", " ", "t", "e", "r", "m", "i", "n", "a", "t", "o", "r">>
OtherQuoteExample == <<"'", "x", "\"", ";", "y", "'", ";", "B">>
\* a quote that is never closed, with two semicolons behind it
OpenQuoteExample == <<"'", ";", " ", ";">>
Examples == {QuotedExample, TerminatedExample, UnterminatedExample, OtherQuoteExample,
             OpenQuoteExample}

\* every text of at most MaxLen characters, and the examples
Texts == UNION {[1..k -> SplitChars] : k \in 0..MaxLen} \cup Examples

\* one call of clean_ddl
InitSplit ==
    \E t \in Texts :
        /\ Start(<<1>>, 1,
                 [objs |-> [c \in Categories |-> 0], special |-> NoSpecial,
                  alltext |-> SourceCreate, tables |-> {}, nrows |-> NoRows, grants |-> {}],
                 TargetOf({}, FALSE, {}), "clean_ddl", "none")
        /\ splitter = [ddl |-> t, returned |-> FALSE, statements |-> <<>>]

\* lines 147-230: clean_ddl(ddl) returns its statements
CleanDdl ==
    /\ pc = "clean_ddl"
    /\ ~splitter.returned
    /\ splitter' = [splitter EXCEPT !.returned = TRUE, !.statements = clean_ddl(splitter.ddl)]
    /\ UNCHANGED <<columns, schema_list, batch_size, source, target, pend, pc, idx, cat, objects,
                   ddl_str, err, total_objects, tables, rows, total_rows_copied,
                   tables_missing, source_conn, target_conn, raised, faults, run,
                   snapshot, oplog, objlog, tablog, report>>

\* ------------------------------------------------------- object replication
\* the statements of oplog that execute the DDL of an object
DdlSteps == {"first", "recreate", "all_source", "split"}

\* the positions of _copy_ddl inside the loop over categories and objects
LoopSteps == {"category", "object", "predrop", "first", "recreate", "all_source", "split"}

\* the error codes of a connection that cannot be made or was lost
ConnectivityErrors == {ORA1017, ORA12541}

Replicated(c, n) == \E i \in 1..Len(objlog) : objlog[i].cat = c /\ objlog[i].name = n

\* C1 (as the claim states it): when _copy_ddl is left inside its loop by an
\* error that is no connectivity error, every object of every category of the
\* source has still been attempted
C1_ObjectFailureNeverAborts ==
    (pc = "aborted" /\ raised.at \in LoopSteps /\ raised.code \notin ConnectivityErrors)
        => \A o \in AllObjects(source.objs) : Replicated(o[1], o[2])

\* the executions of the DDL of object (c, n) of schema s in run r, in order
ObjectExecs(r, s, c, n) ==
    LET Keep(e) == e.run = r /\ e.sch = s /\ e.cat = c /\ e.name = n /\ e.step \in DdlSteps
    IN  SelectSeq(oplog, Keep)

StepsOf(E) == {E[i].step : i \in 1..Len(E)}

\* every attempt is one unbroken run of executions, the first attempt first,
\* the statement-by-statement retry last
AttemptsInOrder(E) ==
    /\ E # <<>> => E[1].step = "first"
    /\ \A i \in 1..Len(E), k \in 1..Len(E) :
         i < k /\ E[i].step = E[k].step => \A j \in i..k : E[j].step = E[i].step
    /\ \A i \in 1..Len(E), k \in 1..Len(E) :
         i < k => ~(E[i].step = "split" /\ E[k].step = "all_source")

\* inside an attempt a statement that failed is followed by nothing but its
\* one re-execution with a semicolon appended after ORA-00911, and never in
\* the statement-by-statement retry
OnlySemicolonRetry(E) ==
    \A i \in 1..Len(E) :
        (i < Len(E) /\ E[i].res # OK /\ E[i + 1].step = E[i].step)
            => /\ E[i].res = ORA911
               /\ E[i].step # "split"
               /\ E[i + 1].sql = WithSemicolon(E[i].sql)
               /\ (i > 1 /\ E[i - 1].step = E[i].step) => E[i - 1].res = OK

Outcomes(r, s, c, n) ==
    {i \in 1..Len(objlog) : /\ objlog[i].run = r /\ objlog[i].sch = s
                            /\ objlog[i].cat = c /\ objlog[i].name = n}

AttemptsBounded(r, s, c, n) ==
    LET E == ObjectExecs(r, s, c, n)
    IN  /\ Cardinality(StepsOf(E)) <= 3
        /\ "recreate" \in StepsOf(E) => c = "TABLE" /\ StepsOf(E) = {"first", "recreate"}
        /\ "all_source" \in StepsOf(E) => IsPackage(c)
        /\ AttemptsInOrder(E)
        /\ OnlySemicolonRetry(E)
        /\ Cardinality(Outcomes(r, s, c, n)) <= 1
        /\ \A i \in Outcomes(r, s, c, n) : objlog[i].result \in {"applied", "failed"}

\* C9 (amended): for every (schema, category, name) the DDL is attempted at
\* most three times - the first attempt, then either one drop-and-recreate
\* (tables) or, after a syntax error, at most one attempt with the text of
\* ALL_SOURCE (packages) and at most one statement-by-statement retry - and
\* inside an attempt of execute_non_query a statement is executed a second time
\* only with a semicolon appended after ORA-00911; the object then has one
\* outcome, applied or failed
C9_AttemptsBounded ==
    \A r \in 1..2, s \in 1..MaxSchemas, c \in Categories, n \in Names :
        AttemptsBounded(r, s, DDL_OBJECTS[c], n)

\* a package body went through the first attempt, the ALL_SOURCE attempt and
\* the statement-by-statement retry, and is recorded as failed
C9_Witness ==
    /\ StepsOf(ObjectExecs(1, 1, "PACKAGE_BODY", 1)) = {"first", "all_source", "split"}
    /\ \E i \in Outcomes(1, 1, "PACKAGE_BODY", 1) : objlog[i].result = "failed"

\* C9 (as the claim states it): the only attempts are the first one, one
\* drop-and-recreate and one statement-by-statement retry, and no statement
\* of the DDL is executed again inside an attempt
C9_NoOtherExecution ==
    \A r \in 1..2, s \in 1..MaxSchemas, c \in Categories, n \in Names :
        LET E == ObjectExecs(r, s, DDL_OBJECTS[c], n)
        IN  /\ StepsOf(E) \subseteq {"first", "recreate", "split"}
            /\ \A i \in 1..Len(E) :
                 (i < Len(E) /\ E[i].res # OK) => E[i + 1].step # E[i].step

\* the order of the categories the claim fixes
FixedOrder == <<"TABLE", "VIEW", "SYNONYM", "TRIGGER", "PROCEDURE", "FUNCTION", "PACKAGE", "PACKAGE_BODY">>
Rank(c) == CHOOSE i \in 1..Len(FixedOrder) : FixedOrder[i] = c

\* the objects attempted so far, the one in progress last
Attempted ==
    [i \in 1..Len(objlog) |-> <<objlog[i].cat, objlog[i].name>>]
        \o (IF pc \in LoopSteps \ {"category"} THEN <<<<Category, Head(objects)>>>> ELSE <<>>)

\* C10: the objects of a schema are attempted category by category in the
\* order TABLE, VIEW, SYNONYM, TRIGGER, PROCEDURE, FUNCTION, PACKAGE,
\* PACKAGE_BODY and inside a category in ascending order of name; when the
\* loop ends and no query of the source failed, every object of the source
\* has been attempted
C10_CategoryOrder ==
    /\ \A i \in 1..Len(Attempted), j \in 1..Len(Attempted) :
         i < j => \/ Rank(Attempted[i][1]) < Rank(Attempted[j][1])
                  \/ /\ Attempted[i][1] = Attempted[j][1]
                     /\ Attempted[i][2] < Attempted[j][2]
    /\ (pc = "list_tables" /\ faults = 0)
         => \A o \in AllObjects(source.objs) : Replicated(o[1], o[2])

\* a table and a package were replicated, the table first
C10_Witness ==
    /\ pc = "list_tables"
    /\ Len(objlog) = 2
    /\ objlog[1].cat = "TABLE"
    /\ objlog[2].cat = "PACKAGE"

\* ---------------------------------------------------------- row replication
\* the positions in oplog of the statements of a step for table n of schema s
\* in run r
StepPos(r, s, n, step) ==
    {k \in 1..Len(oplog) : /\ oplog[k].run = r /\ oplog[k].sch = s /\ oplog[k].phase = "data"
                           /\ oplog[k].name = n /\ oplog[k].step = step}

\* the batches of the executemany calls for table n, in call order
BatchesOf(r, s, n) ==
    LET Keep(e) == /\ e.run = r /\ e.sch = s /\ e.phase = "data"
                   /\ e.name = n /\ e.step = "insert"
        calls == SelectSeq(oplog, Keep)
    IN  [k \in 1..Len(calls) |-> calls[k].batch]

CeilDiv(n, b) == (n + b - 1) \div b

BatchedAndCommitted(t, B) ==
    /\ Len(B) = CeilDiv(t.copied, batch_size)
    /\ Flatten(B) = RowsOf(t.name)
    /\ \A k \in 1..Len(B) : k < Len(B) => Len(B[k]) = batch_size
    /\ Len(B) > 0 /\ Len(B[Len(B)]) \in 1..batch_size
    /\ Cardinality(StepPos(t.run, t.sch, t.name, "commit")) = 1
    /\ \A i \in StepPos(t.run, t.sch, t.name, "insert"),
          c \in StepPos(t.run, t.sch, t.name, "commit") : i < c

\* C5: _insert_rows with n > 0 rows and batch size b that does not raise
\* issues ceil(n/b) executemany calls whose batches, concatenated in call
\* order, are the rows; every batch but the last has b rows, the last has
\* between 1 and b; exactly one commit follows them
C5_Batches ==
    \A i \in 1..Len(tablog) :
        tablog[i].result = "copied"
            => /\ tablog[i].copied = source.nrows[tablog[i].name]
               /\ tablog[i].copied > 0
               /\ BatchedAndCommitted(tablog[i], BatchesOf(tablog[i].run, tablog[i].sch, tablog[i].name))

\* a table whose rows do not fill the last batch was copied
C5_Witness ==
    \E i \in 1..Len(tablog) :
        /\ tablog[i].result = "copied"
        /\ tablog[i].copied > batch_size
        /\ tablog[i].copied % batch_size # 0
        /\ batch_size > 1

\* a batch of the table raised after an earlier batch had been executed
FailedPartWay(t) ==
    \E bad \in StepPos(t.run, t.sch, t.name, "insert"), good \in StepPos(t.run, t.sch, t.name, "insert") :
        good < bad /\ oplog[good].res = OK /\ oplog[bad].res # OK

\* C6 (as the claim states it): after an insert that failed part-way the
\* table is reported as failed and no row of it is durable in the target,
\* whatever the run did afterwards
C6_PartialRowsNeverCommitted ==
    \A i \in 1..Len(tablog) :
        FailedPartWay(tablog[i])
            => /\ tablog[i].result = "failed"
               /\ target[tablog[i].sch].rows[tablog[i].name] = <<>>

RECURSIVE SumCopied(_)
SumCopied(log) == IF log = <<>> THEN 0 ELSE Head(log).copied + SumCopied(Tail(log))

Processed(n) == {i \in 1..Len(tablog) : tablog[i].name = n}

MissingInTarget(t) ==
    /\ t.result = "missing"
    /\ t.copied = 0
    /\ \E k \in 1..Len(tables_missing) : tables_missing[k] = <<t.sch, t.name>>
    /\ \A step \in {"truncate", "fetch", "insert", "commit"} : StepPos(t.run, t.sch, t.name, step) = {}
    /\ Cardinality(Processed(t.name)) = 1

\* C7: a table of the source that is absent from the target is recorded in
\* tables_missing and skipped: no truncate, fetch or insert is issued for it,
\* it is taken up once only, it adds nothing to total_rows_copied, and the
\* tables after it are still processed
C7_MissingSkipped ==
    /\ \A i \in 1..Len(tablog) :
         (<<"TABLE", tablog[i].name>> \notin target[tablog[i].sch].objs \/ tablog[i].result = "missing")
             => MissingInTarget(tablog[i])
    /\ total_rows_copied = SumCopied(tablog)
    /\ pc = "close" => \A n \in source.tables : Processed(n) # {}

\* the first table was missing from the target and the second one was copied
C7_Witness ==
    /\ pc = "close"
    /\ Len(tablog) = 2
    /\ tablog[1].result = "missing"
    /\ <<"TABLE", tablog[1].name>> \notin target[1].objs
    /\ tablog[2].result = "copied"

\* C8: an error of the truncate, the fetch or the insert of a table is caught
\* at table level: _copy_data is left by no error once the tables are
\* listed, every table of the list is processed, and total_rows_copied is the
\* number of rows of the tables whose insert ended with its commit
C8_TableFailuresIsolated ==
    /\ pc = "aborted" => raised.at = "list_tables"
    /\ pc = "close" => \A n \in source.tables : Cardinality(Processed(n)) = 1
    /\ \A i \in 1..Len(tablog) :
         /\ tablog[i].copied = IF tablog[i].result = "copied" THEN source.nrows[tablog[i].name] ELSE 0
         /\ tablog[i].result = "copied"
              <=> \E k \in StepPos(tablog[i].run, tablog[i].sch, tablog[i].name, "commit") : oplog[k].res = OK
    /\ pc \in {"table", "truncate", "fetch", "insert", "close"} => total_rows_copied = SumCopied(tablog)

\* the first table failed, the second one was copied and is all that counts
C8_Witness ==
    /\ pc = "close"
    /\ Len(tablog) = 2
    /\ tablog[1].result = "failed"
    /\ tablog[2].result = "copied"
    /\ total_rows_copied = source.nrows[tablog[2].name]
    /\ source.nrows[tablog[1].name] > 0

\* entries of the same table in the same pass of _copy_data
SameTable(e, f) ==
    /\ e.phase = "data" /\ f.phase = "data"
    /\ e.run = f.run /\ e.sch = f.sch /\ e.name = f.name

\* the last entry of the given step before entry k for the table of k, or 0
LastBefore(k, step) ==
    LET S == {j \in 1..(k - 1) : oplog[j].step = step /\ SameTable(oplog[j], oplog[k])}
    IN  IF S = {} THEN 0 ELSE CHOOSE j \in S : \A i \in S : i <= j

\* the column names between SELECT and FROM, between INSERT and VALUES
SelectColumns(sql) == SubSeq(sql, 2, Len(sql) - 1)
InsertColumns(sql) == SubSeq(sql, 2, 1 + ((Len(sql) - 2) \div 2))

\* C26: for a table of the target the truncate comes first, then the fetch,
\* then the inserts: a fetch is issued only after the truncate of the table
\* succeeded in the same pass, an insert only after that truncate and a fetch
\* that succeeded, nothing is fetched or inserted once the truncate failed, and
\* the INSERT names the columns of the SELECT in the same order
C26_TruncateFetchInsert ==
    \A k \in 1..Len(oplog) :
        /\ (oplog[k].phase = "data" /\ oplog[k].step = "truncate") =>
              \A j \in 1..(k - 1) :
                  SameTable(oplog[j], oplog[k]) => oplog[j].step = "truncate"
        /\ (oplog[k].phase = "data" /\ oplog[k].step = "fetch") =>
              /\ LastBefore(k, "truncate") > 0
              /\ oplog[LastBefore(k, "truncate")].res = OK
              /\ LastBefore(k, "insert") = 0
        /\ (oplog[k].phase = "data" /\ oplog[k].step = "insert") =>
              /\ LastBefore(k, "truncate") > 0
              /\ oplog[LastBefore(k, "truncate")].res = OK
              /\ LastBefore(k, "fetch") > LastBefore(k, "truncate")
              /\ oplog[LastBefore(k, "fetch")].res = OK
              /\ InsertColumns(oplog[k].sql) = SelectColumns(oplog[LastBefore(k, "fetch")].sql)

\* the rows of table 2, of three columns, were inserted after its truncate
\* and its fetch, and the truncate of another table failed before
C26_Witness ==
    \E k \in 1..Len(oplog), t \in 1..Len(oplog) :
        /\ oplog[k].step = "insert"
        /\ oplog[k].res = OK
        /\ oplog[k].name = 2
        /\ Len(InsertColumns(oplog[k].sql)) = 3
        /\ oplog[t].step = "truncate"
        /\ oplog[t].res # OK
        /\ oplog[t].name = 1
        /\ t < k

\* ------------------------------------------------------------ copy, validate
\* the place of schema s in the list given to copy
Place(s) == CHOOSE i \in 1..Len(schema_list) : schema_list[i] = s

\* C2: within the pass of one schema every statement of _copy_ddl comes
\* before the first truncate, fetch or insert of _copy_data, and the schemas
\* are taken one at a time in the order given: no statement for a schema
\* comes after a statement for a later schema of the list
C2_DdlBeforeDataPerSchema ==
    \A i \in 1..Len(oplog), j \in 1..Len(oplog) :
        (i < j /\ oplog[i].run = oplog[j].run)
            => /\ Place(oplog[i].sch) <= Place(oplog[j].sch)
               /\ oplog[i].sch = oplog[j].sch
                    => ~(oplog[i].phase = "data" /\ oplog[j].phase = "ddl")

\* a table was created and filled for the first schema of the list before
\* the first statement for the second schema
C2_Witness ==
    \E i \in 1..Len(oplog), j \in 1..Len(oplog), k \in 1..Len(oplog) :
        /\ i < j /\ j < k
        /\ oplog[i].run = 1 /\ oplog[j].run = 1 /\ oplog[k].run = 1
        /\ oplog[i].sch = schema_list[1] /\ oplog[i].step = "first"
        /\ oplog[j].sch = schema_list[1] /\ oplog[j].step = "insert"
        /\ Len(schema_list) > 1 /\ oplog[k].sch = schema_list[2]

\* C3: a second call of copy on the same source and the target the first
\* call left, both calls without an error of the environment, leaves the
\* objects and the rows of every table of the target as the first call left
\* them
C3_SecondCopySameTarget ==
    (run = 2 /\ pc \in {"done", "validated"} /\ faults = 0) => target = snapshot

\* copy ran twice on a table that the target held with a row of its own and
\* that only the data pass touches
C3_Witness ==
    /\ run = 2 /\ pc = "done" /\ faults = 0
    /\ source.objs[1] = 0
    /\ Len(target[schema_list[1]].rows[1]) = MaxRows
    /\ tablog # <<>> /\ tablog[Len(tablog)].run = 2 /\ tablog[Len(tablog)].result = "copied"

\* copy ended with every object applied and every table copied
CleanCopy ==
    /\ raised = NoError
    /\ faults = 0
    /\ \A i \in 1..Len(objlog) : objlog[i].result = "applied"
    /\ \A i \in 1..Len(tablog) : tablog[i].result \in {"copied", "empty"}

\* C4 (as the claim states it): validate run after a clean copy gives a
\* report with all_valid() true
C4_CleanCopyValidates ==
    (pc = "validated" /\ CleanCopy) => (report.raised = OK /\ all_valid(report))

\* ------------------------------------------------------- the object count
AppliedObjects == {i \in 1..Len(objlog) : objlog[i].result = "applied"}
FailedObjects == {i \in 1..Len(objlog) : objlog[i].result = "failed"}

\* a statement executed for the object of entry i of objlog raised
SomeStatementRaised(i) ==
    \E k \in 1..Len(oplog) :
        /\ oplog[k].run = objlog[i].run
        /\ oplog[k].sch = objlog[i].sch
        /\ oplog[k].cat = objlog[i].cat
        /\ oplog[k].name = objlog[i].name
        /\ oplog[k].res # OK

\* C20: when _copy_ddl has gone through every category, total_objects is the
\* number of objects that ended as applied; an object ends as failed only
\* after a statement of its own raised, and it is not counted: with exactly
\* one failed object the count is the number of objects minus one
C20_CountOfApplied ==
    pc = "list_tables" =>
        /\ total_objects = Cardinality(AppliedObjects)
        /\ \A i \in FailedObjects : SomeStatementRaised(i)
        /\ Cardinality(FailedObjects) = 1 => total_objects = Len(objlog) - 1

\* the pass has ended with every object of the source attempted, one of them
\* failed and one applied
C20_Witness ==
    /\ pc = "list_tables"
    /\ Len(objlog) = Total(source.objs, Len(DDL_OBJECTS))
    /\ Cardinality(FailedObjects) = 1
    /\ Cardinality(AppliedObjects) = 1
    /\ total_objects = 1

\* ------------------------------------------------- errors of the first attempt
\* the codes of 'name already exists'
ExistsErrors == {ORA955, ORA2264, ORA1430}

SameObject(e, f) == e.run = f.run /\ e.sch = f.sch /\ e.cat = f.cat /\ e.name = f.name

\* entry k of oplog is the last statement sent to the target for its object
LastForObject(k) == \A j \in 1..Len(oplog) : (j > k) => ~SameObject(oplog[j], oplog[k])

SyntaxErrors == {ORA911, ORA900, ORA6550}

\* the executions of the first attempt of the object at hand
FirstExecs ==
    LET Keep(e) == /\ e.run = run /\ e.sch = Schema /\ e.cat = Category
                   /\ e.name = Head(objects) /\ e.step = "first"
    IN  SelectSeq(oplog, Keep)

\* the statement-by-statement retry is about to split the text whose
\* statement raised the error of the first attempt
SplitsTextOfFirstAttempt ==
    (pc = "split") =>
        /\ FirstExecs # <<>>
        /\ \E j \in 1..Len(clean_ddl(ddl_str)) :
              Last(FirstExecs).sql \in {clean_ddl(ddl_str)[j], WithSemicolon(clean_ddl(ddl_str)[j])}

\* an object whose first attempt ended with an error of the syntax class has
\* the outcome of the statement-by-statement retry, and no other attempt
OutcomeOfSplitRetry ==
    \A i \in 1..Len(objlog) :
        LET E == ObjectExecs(objlog[i].run, objlog[i].sch, objlog[i].cat, objlog[i].name)
            F == SelectSeq(E, LAMBDA e : e.step = "first")
            S == SelectSeq(E, LAMBDA e : e.step = "split")
        IN  (F # <<>> /\ Last(F).res \in SyntaxErrors) =>
                /\ StepsOf(E) \subseteq {"first", "split"}
                /\ objlog[i].how = "split"
                /\ \A j \in 1..Len(S) : j < Len(S) => S[j].res = OK
                /\ objlog[i].result = (IF S = <<>> \/ Last(S).res = OK THEN "applied" ELSE "failed")

\* C24 as stated: after ORA-00911, ORA-00900 or ORA-06550 the one retry is
\* the splitter run on the DDL of the object, its statements executed one by
\* one in order; the object is applied when the retry succeeds and failed
\* when it does not
C24_SplitRetryOnRawDdl == SplitsTextOfFirstAttempt /\ OutcomeOfSplitRetry

\* ------------------------------------------------------------ short DDL texts
\* the text is empty or has fewer than MinDdlLen characters once trimmed
Suspect(text) == text = <<>> \/ Len(Strip(text)) < MinDdlLen

\* the statement is one of the text of ALL_SOURCE, as execute_non_query
\* sends it
OfSourceText(sql) ==
    \E j \in 1..Len(clean_ddl(source.alltext)) :
        sql \in {clean_ddl(source.alltext)[j], WithSemicolon(clean_ddl(source.alltext)[j])}

\* C25 as stated: for an object of any category whose DDL is empty or
\* shorter than the minimum, every statement of the first attempt is a
\* statement of the text joined from the lines of ALL_SOURCE, never one of
\* the suspect text
C25_ShortDdlNeverExecuted ==
    \A k \in 1..Len(oplog) :
        (oplog[k].step = "first" /\ Suspect(DdlOf(oplog[k].cat, oplog[k].name)))
            => OfSourceText(oplog[k].sql)

\* ------------------------------------------------------ categories skipped
\* the query of category c raised ORA-31600 in run r for schema s
Skipped(r, s, c) ==
    \E k \in 1..Len(oplog) :
        /\ oplog[k].step = "category" /\ oplog[k].res = ORA31600
        /\ oplog[k].run = r /\ oplog[k].sch = s /\ oplog[k].cat = c

\* C29: after ORA-31600 on the query of a category nothing is executed,
\* applied, counted or recorded as failed for an object of the category in
\* that pass, _copy_ddl is not left, and at the end of the pass every object
\* of the categories that were not skipped has its outcome; any other error
\* of the query leaves _copy_ddl with that error
C29_UnsupportedCategorySkipped ==
    /\ total_objects = Cardinality(AppliedObjects)
    /\ (pc = "aborted" /\ raised.at = "category") => raised.code # ORA31600
    /\ \A k \in 1..Len(oplog) :
        /\ (oplog[k].step = "category" /\ oplog[k].res = ORA31600) =>
              /\ \A i \in 1..Len(objlog) :
                    ~(/\ objlog[i].run = oplog[k].run /\ objlog[i].sch = oplog[k].sch
                      /\ objlog[i].cat = oplog[k].cat)
              /\ \A j \in 1..Len(oplog) :
                    (/\ j # k /\ oplog[j].run = oplog[k].run /\ oplog[j].sch = oplog[k].sch
                     /\ oplog[j].phase = "ddl") => oplog[j].cat # oplog[k].cat
        /\ (oplog[k].step = "category" /\ oplog[k].res # ORA31600) =>
              /\ k = Len(oplog)
              /\ pc = "aborted"
              /\ raised = [code |-> oplog[k].res, at |-> "category"]
    /\ pc = "list_tables" =>
          \A o \in AllObjects(source.objs) :
              Skipped(run, Schema, o[1]) \/ Replicated(o[1], o[2])

\* the views of the source were skipped and the package after them applied
C29_Witness ==
    /\ pc = "list_tables"
    /\ source.objs[2] > 0
    /\ Skipped(1, 1, "VIEW")
    /\ Len(objlog) = 1
    /\ objlog[1].cat = "PACKAGE"
    /\ objlog[1].result = "applied"
    /\ total_objects = 1

\* ------------------------------------------------------ outcomes of an object
\* the steps of _copy_ddl that belong to one object
ObjectSteps == {"predrop", "first", "recreate", "all_source", "split"}

\* object (c, n) of schema s is the one _copy_ddl works on in run r, or the
\* one it worked on when an error left it
InProgress(r, s, c, n) ==
    /\ r = run /\ s = Schema /\ objects # <<>> /\ c = Category /\ n = Head(objects)
    /\ \/ pc \in ObjectSteps
       \/ pc = "aborted" /\ raised.at \in ObjectSteps

\* the last execution of the DDL of the object ended well, or with 'name
\* already exists' on an object that is no table
LastExecutionAllows(E, c) ==
    \/ E = <<>>
    \/ Last(E).res = OK
    \/ Last(E).res \in ExistsErrors /\ c # "TABLE"

HeldByTarget == <<"TABLE", Head(objects)>> \in target[Schema].objs

\* a plain DROP is sent only right after a DROP ... CASCADE CONSTRAINTS of
\* the same table that failed
PlainDropAfterCascadeFailed ==
    \A k \in 1..Len(oplog) :
        (oplog[k].sql = DropPlainSql) =>
            /\ k > 1
            /\ Body(oplog[k - 1].sql) = DropCascadeSql
            /\ oplog[k - 1].res # OK
            /\ SameObject(oplog[k - 1], oplog[k])
            /\ oplog[k - 1].step = oplog[k].step

\* the create statement of the handler (line 222) follows a DROP that succeeded
RecreateAfterDrop ==
    \A k \in 1..Len(oplog) :
        (oplog[k].step = "recreate" /\ (k = 1 \/ oplog[k - 1].step # "recreate")) =>
            /\ k > 1
            /\ oplog[k - 1].step = "handlerdrop"
            /\ oplog[k - 1].res = OK
            /\ SameObject(oplog[k - 1], oplog[k])

\* the step sends the create statement of line 210 for a table
CreatesTable == pc = "first" /\ Category = "TABLE" /\ Len(oplog') > Len(oplog)

ConnectSteps == {"connect_source", "connect_target"}

\* nothing was logged for the schema in progress or for a later one in this
\* call of copy
NothingForSchema ==
    /\ \A i \in 1..Len(oplog) : oplog[i].run = run => Place(oplog[i].sch) < idx
    /\ \A i \in 1..Len(objlog) : objlog[i].run = run => Place(objlog[i].sch) < idx
    /\ \A i \in 1..Len(tablog) : tablog[i].run = run => Place(tablog[i].sch) < idx

\* a connection that cannot be acquired ends copy before anything is done
\* for the schema
AcquireFailureFatal ==
    \A i \in 1..Len(schema_list) :
        (idx = i /\ pc = "aborted" /\ raised.at \in ConnectSteps) =>
            /\ raised.code \in ConnectivityErrors
            /\ NothingForSchema

\* every connectivity error met by a statement has left copy
NeverDowngraded ==
    \A i \in 1..Len(oplog) :
        oplog[i].res \in ConnectivityErrors => pc = "aborted" /\ raised.code = oplog[i].res

\* C15 (as the claim states it): a connectivity error leaves copy, nothing is
\* done for the schema whose connection could not be acquired nor for a later
\* one, and no connectivity error ends as the failure of one object or table
C15_ConnectivityFatal == AcquireFailureFatal /\ NeverDowngraded

\* C16 (as the claim states it): when copy starts the next schema and when
\* copy is left, normally or by an error, no connection it acquired is open
C16_ConnectionsReleased ==
    pc \in {"connect_source", "aborted", "done", "validated"} =>
        source_conn # "open" /\ target_conn # "open"

\* ---------------------------------------------------------------- validator
\* the lines of the table detail for table t of schema s
LinesOf(s, t) ==
    {k \in 1..Len(report.tables) : report.tables[k].schema = s /\ report.tables[k].table = t}

AbsentFromTarget(s, t) == <<"TABLE", t>> \notin target[s].objs

\* C17 (as the claim states it): validate gives exactly one line, with both
\* counts, for every table of the source whose row count differs from the
\* target's or that the target does not have, and no line for any other
C17_OneLinePerDifferingTable ==
    pc = "validated" =>
        \A i \in 1..Len(schema_list), t \in ValidatorTables :
            IF AbsentFromTarget(schema_list[i], t)
               \/ source.nrows[t] # Len(target[schema_list[i]].rows[t])
            THEN /\ Cardinality(LinesOf(schema_list[i], t)) = 1
                 /\ \A k \in LinesOf(schema_list[i], t) :
                        /\ report.tables[k].source = source.nrows[t]
                        /\ ~AbsentFromTarget(schema_list[i], t) =>
                               report.tables[k].target = Len(target[schema_list[i]].rows[t])
            ELSE LinesOf(schema_list[i], t) = {}

\* seq lists exactly the elements of S in ascending order
SortedListOf(seq, S) ==
    /\ Len(seq) = Cardinality(S)
    /\ {seq[i] : i \in 1..Len(seq)} = S
    /\ \A i \in 1..Len(seq), j \in 1..Len(seq) : i < j => seq[i] < seq[j]

\* the lines of detail for schema s and of the given kind
KindLines(detail, s, kind) ==
    {k \in 1..Len(detail) : detail[k].schema = s /\ detail[k].kind = kind}

\* detail reports for schema s the difference of S and T: one line with the
\* sorted names of S \ T when there are any, one with those of T \ S
ReportsDifference(detail, s, S, T) ==
    /\ Cardinality(KindLines(detail, s, "missing")) = (IF S \ T = {} THEN 0 ELSE 1)
    /\ Cardinality(KindLines(detail, s, "extra")) = (IF T \ S = {} THEN 0 ELSE 1)
    /\ \A k \in KindLines(detail, s, "missing") : SortedListOf(detail[k].names, S \ T)
    /\ \A k \in KindLines(detail, s, "extra") : SortedListOf(detail[k].names, T \ S)

OnlyDifferenceLines(detail) ==
    \A k \in 1..Len(detail) :
        /\ detail[k].kind \in {"missing", "extra"}
        /\ \E i \in 1..Len(schema_list) : detail[k].schema = schema_list[i]

\* C18: the synonym detail and the grant detail hold, per schema, one line
\* with the sorted names in the source and not in the target when there are
\* any, one line with the sorted names in the target and not in the source
\* when there are any, and no other line; for the grants A, B, C of the source
\* and B, C, D of the target the lines list A as missing and D as extra
C18_SetDifferenceLines ==
    (pc = "validated" /\ report.raised = OK) =>
        /\ OnlyDifferenceLines(report.synonyms)
        /\ OnlyDifferenceLines(report.grants)
        /\ \A i \in 1..Len(schema_list) :
            /\ ReportsDifference(report.synonyms, schema_list[i],
                                 1..source.objs[3], TargetNamesOf("SYNONYM")[schema_list[i]])
            /\ ReportsDifference(report.grants, schema_list[i],
                                 source.grants, target[schema_list[i]].grants)
        /\ (source.grants = ExampleSource /\ target[1].grants = ExampleTarget) =>
               /\ \E k \in KindLines(report.grants, 1, "missing") : report.grants[k].names = <<1>>
               /\ \E k \in KindLines(report.grants, 1, "extra") : report.grants[k].names = <<4>>

\* validate has compared the grants A, B, C with the grants B, C, D, and a
\* schema whose synonyms differ both ways
C18_Witness ==
    /\ pc = "validated"
    /\ report.raised = OK
    /\ source.grants = ExampleSource
    /\ target[1].grants = ExampleTarget
    /\ Len(report.grants) = 2
    /\ Len(report.synonyms) = 2
    /\ Len(schema_list) > 1

\* the index in DDL_OBJECTS of category c
CategoryIndex(c) == CHOOSE k \in Categories : DDL_OBJECTS[k] = c

\* the names of the objects of category c in the source
SourceNamesOf(c) == 1..source.objs[CategoryIndex(c)]

\* C19 (as the claim states it): the detail of VIEW, TRIGGER, PROCEDURE or
\* FUNCTION has a line for a schema exactly when the names of the objects of
\* that category differ between source and target
C19_DetailOfOwnCategory ==
    (pc = "validated" /\ report.raised = OK) =>
        \A t \in 1..Len(OBJECT_TYPES), i \in 1..Len(schema_list) :
            (\E k \in 1..Len(report.objects[t]) : report.objects[t][k].schema = schema_list[i])
            <=> SourceNamesOf(OBJECT_TYPES[t]) # TargetNamesOf(OBJECT_TYPES[t])[schema_list[i]]

\* the number of lines of the mismatch lists of the report
MismatchLines ==
    Len(report.tables) + Len(report.synonyms) + Len(report.grants)
    + Len(report.objects[1]) + Len(report.objects[2])
    + Len(report.objects[3]) + Len(report.objects[4])

\* C22: when validate returned a report, the command validate ends with a
\* status that is not zero if some mismatch list of the report - tables,
\* synonyms, grants or a category of objects - holds a line, and with status
\* zero if every list is empty; all_valid() is true exactly in the second case
C22_ExitStatusOfValidate ==
    (report.done /\ report.raised = OK) =>
        /\ all_valid(report) <=> (MismatchLines = 0)
        /\ (MismatchLines > 0) => report.status # 0
        /\ (MismatchLines = 0) => report.status = 0

\* the only mismatch is a view missing in the target, and the status is 1
C22_Witness ==
    /\ report.done
    /\ report.raised = OK
    /\ report.tables = <<>> /\ report.synonyms = <<>> /\ report.grants = <<>>
    /\ Len(report.objects[1]) > 0
    /\ report.status = 1

\* ------------------------------------------------------- statement splitter
\* the text that the scanning loop of clean_ddl reads
Scanned(ddl) == CleanLines(NormalizeNewlines(RemoveMarks(ddl)))

\* the scan is inside a quoted region when it reads character i of t
InsideQuotes(t, i) == Scan(SubSeq(t, 1, i - 1), 1, ScanStart).in_string

QuotedSemicolons(t) == {i \in 1..Len(t) : t[i] = ";" /\ InsideQuotes(t, i)}
OpenSemicolons(t) == {i \in 1..Len(t) : t[i] = ";" /\ ~InsideQuotes(t, i)}

RECURSIVE Semicolons(_)
Semicolons(stmts) ==
    IF stmts = <<>> THEN 0
    ELSE Cardinality({i \in 1..Len(Head(stmts)) : Head(stmts)[i] = ";"}) + Semicolons(Tail(stmts))

\* C11 (as the claim states it): the semicolons inside quotes stay in the
\* statements returned and do not split the text, a quote of the other kind
\* does not close the region, and "A; 'x;y'; B" gives "A", "'x;y'", "B"
C11_QuotedSemicolonKept ==
    splitter.returned =>
        /\ Semicolons(splitter.statements) >= Cardinality(QuotedSemicolons(Scanned(splitter.ddl)))
        /\ Len(splitter.statements) <= 1 + Cardinality(OpenSemicolons(Scanned(splitter.ddl)))
        /\ splitter.ddl = QuotedExample =>
               splitter.statements = <<<<"A">>, <<"'", "x", ";", "y", "'">>, <<"B">>>>
        /\ splitter.ddl = OtherQuoteExample =>
               splitter.statements = <<<<"'", "x", "\"", ";", "y", "'">>, <<"B">>>>

\* str.strip() leaves nothing of s
Blank(s) == Strip(s) = <<>>

\* C12 (as the claim states it): every statement returned is non-empty and
\* not whitespace-only
C12_NoBlankStatement ==
    splitter.returned =>
        \A k \in 1..Len(splitter.statements) : ~Blank(splitter.statements[k])

\* C13 (as the claim states it): the empty text and every whitespace-only
\* text give the empty sequence
C13_BlankGivesNothing ==
    splitter.returned /\ (\A i \in 1..Len(splitter.ddl) : splitter.ddl[i] \in WhiteChars) =>
        splitter.statements = <<>>

\* the semicolons that the scan reads outside quotes and not after a backslash
Terminators(t) ==
    {i \in 1..Len(t) : /\ t[i] = ";"
                       /\ ~Scan(SubSeq(t, 1, i - 1), 1, ScanStart).in_string
                       /\ ~Scan(SubSeq(t, 1, i - 1), 1, ScanStart).escape_next}

\* the segments of t between the terminators T, the trailing one included
RECURSIVE SegmentsFrom(_, _, _, _)
SegmentsFrom(t, T, from, i) ==
    IF i > Len(t) THEN <<SubSeq(t, from, Len(t))>>
    ELSE IF i \in T THEN <<SubSeq(t, from, i - 1)>> \o SegmentsFrom(t, T, i + 1, i + 1)
    ELSE SegmentsFrom(t, T, from, i + 1)

RECURSIVE NonBlankStripped(_)
NonBlankStripped(segs) ==
    IF segs = <<>> THEN <<>>
    ELSE (IF Blank(Head(segs)) THEN <<>> ELSE <<Strip(Head(segs))>>) \o NonBlankStripped(Tail(segs))

SegmentStatements(t) == NonBlankStripped(SegmentsFrom(t, Terminators(t), 1, 1))

\* C14 (as the claim states it): the statements returned are, in the order of
\* the text, the non-blank segments between terminators outside quotes, the
\* trailing segment included; "A; B;" gives "A", "B" and "no terminator"
\* gives itself
C14_OneStatementPerSegment ==
    splitter.returned =>
        /\ splitter.statements = SegmentStatements(Scanned(splitter.ddl))
        /\ splitter.ddl = TerminatedExample => splitter.statements = <<<<"A">>, <<"B">>>>
        /\ splitter.ddl = UnterminatedExample => splitter.statements = <<UnterminatedExample>>

\* C27 as stated: no statement returned begins or ends with whitespace and
\* none ends with a semicolon, whatever the text, quoted regions and quotes
\* that are never closed included
C27_StatementsStripped ==
    splitter.returned =>
        \A k \in 1..Len(splitter.statements) :
            LET s == splitter.statements[k]
            IN  s # <<>> => /\ Head(s) \notin WhiteChars
                            /\ Last(s) \notin WhiteChars
                            /\ Last(s) # ";"

\* character i of t follows a backslash that is itself not escaped
RECURSIVE Escaped(_, _)
Escaped(t, i) == i > 1 /\ t[i - 1] = "\\" /\ ~Escaped(t, i - 1)

\* the quote character of the region that is open when character i of t is
\* read, "" outside quotes; a quote that is escaped opens and closes nothing
RECURSIVE OpenQuote(_, _)
OpenQuote(t, i) ==
    IF i = 1 THEN ""
    ELSE IF Escaped(t, i - 1) \/ t[i - 1] \notin {"'", "\""} THEN OpenQuote(t, i - 1)
    ELSE IF OpenQuote(t, i - 1) = "" THEN t[i - 1]
    ELSE IF OpenQuote(t, i - 1) = t[i - 1] THEN ""
    ELSE OpenQuote(t, i - 1)

\* the semicolons that are neither escaped nor inside quotes
SplitPositions(t) == {i \in 1..Len(t) : t[i] = ";" /\ ~Escaped(t, i) /\ OpenQuote(t, i) = ""}

NextDdl ==
    \/ ConfigureMetadata
    \/ QueryCategory
    \/ PrepareObject
    \/ DropExisting
    \/ FirstAttempt
    \/ RecreateTable
    \/ AllSourceAttempt
    \/ SplitRetry

NextData ==
    \/ ListTables
    \/ CheckTable
    \/ TruncateTable
    \/ FetchRows
    \/ InsertRows

Next ==
    \/ ConnectSource
    \/ ConnectTarget
    \/ NextDdl
    \/ NextData
    \/ CloseConnections
    \/ CopyAgain
    \/ Validate

NextSplit ==
    \/ CleanDdl

NextValidate ==
    \/ Validate

SpecDdl == InitDdl /\ [][NextDdl]_vars
SpecData == InitData /\ [][NextData]_vars
Spec == Init /\ [][Next]_vars
SpecSplit == InitSplit /\ [][NextSplit]_vars
SpecValidate == InitValidate /\ [][NextValidate]_vars

====
